---------------------------- MODULE Spec2Model ----------------------------
(***************************************************************************)
(* Model of the regression engine of real-data-viz                         *)
(* (src/src/lib/regression-utils.ts).                                       *)
(*                                                                         *)
(* Numbers.  A JavaScript number is modelled as a pair <<n, d>>:            *)
(*   d > 0   the rational n/d in lowest terms (exact arithmetic),           *)
(*   d = 0   an IEEE special: <<0,0>> NaN, <<1,0>> +Infinity,               *)
(*           <<-1,0>> -Infinity.                                            *)
(* The four operations follow IEEE-754 for the specials (x/0, 0/0,          *)
(* Inf-Inf, 0*Inf, NaN propagation).  Zero is unsigned: every zero divisor  *)
(* of the engine is the result of a subtraction a-a or of a sum of squares, *)
(* which IEEE rounds to +0.  Rounding of finite results is not modelled.    *)
(*                                                                         *)
(* Math.log and Math.exp are modelled in base 2 (logarithms in units of     *)
(* ln 2): exact at the powers of two and linearly interpolated between two  *)
(* consecutive powers of two.  The sigmoid of the logistic fit is the same  *)
(* function rounded to four decimals.                                       *)
(***************************************************************************)
EXTENDS Integers, Sequences, FiniteSets, TLC

-----------------------------------------------------------------------------
(* Bounds of the model *)

\* longest sample sequence handed to a fit
MaxLen == 3
\* largest polynomial degree handed to performRegression
MaxOrder == 3

-----------------------------------------------------------------------------
(* Numbers *)

NaN == <<0, 0>>
PosInf == <<1, 0>>
NegInf == <<-1, 0>>

AbsInt(i) == IF i < 0 THEN 0 - i ELSE i
SgnInt(i) == IF i < 0 THEN 0 - 1 ELSE IF i > 0 THEN 1 ELSE 0

RECURSIVE Gcd(_, _)
Gcd(a, b) == IF b = 0 THEN a ELSE Gcd(b, a % b)

\* the rational n/d (d # 0) in lowest terms with a positive denominator
Q(n, d) ==
  LET g == Gcd(AbsInt(n), AbsInt(d))
  IN  IF d < 0 THEN <<(0 - n) \div g, (0 - d) \div g>> ELSE <<n \div g, d \div g>>

Num(i) == <<i, 1>>
Zero == <<0, 1>>
One == <<1, 1>>

IsNaN(a) == a = NaN
IsFinite(a) == a[2] # 0
IsZero(a) == a[2] # 0 /\ a[1] = 0
Sgn(a) == SgnInt(a[1])

Neg(a) == <<0 - a[1], a[2]>>
Abs(a) == <<AbsInt(a[1]), a[2]>>

Add(a, b) ==
  IF a[2] # 0 /\ b[2] # 0
  THEN LET g == Gcd(a[2], b[2])
       IN  Q(a[1] * (b[2] \div g) + b[1] * (a[2] \div g), (a[2] \div g) * b[2])
  ELSE IF IsNaN(a) \/ IsNaN(b) THEN NaN
  ELSE IF a[2] = 0 /\ b[2] = 0 THEN (IF a = b THEN a ELSE NaN)
  ELSE IF a[2] = 0 THEN a ELSE b

Sub(a, b) == Add(a, Neg(b))

Mul(a, b) ==
  IF a[2] # 0 /\ b[2] # 0
  THEN LET g1 == Gcd(AbsInt(a[1]), b[2])
           g2 == Gcd(AbsInt(b[1]), a[2])
       IN  <<(a[1] \div g1) * (b[1] \div g2), (a[2] \div g2) * (b[2] \div g1)>>
  ELSE IF IsNaN(a) \/ IsNaN(b) THEN NaN
  ELSE IF Sgn(a) * Sgn(b) = 0 THEN NaN
  ELSE <<Sgn(a) * Sgn(b), 0>>

Div(a, b) ==
  IF IsNaN(a) \/ IsNaN(b) THEN NaN
  ELSE IF b[2] = 0 THEN (IF a[2] = 0 THEN NaN ELSE Zero)
  ELSE IF a[2] = 0 THEN <<IF b[1] < 0 THEN 0 - a[1] ELSE a[1], 0>>
  ELSE IF b[1] = 0 THEN <<SgnInt(a[1]), 0>>
  ELSE Mul(a, Q(b[2], b[1]))

\* a < b as JavaScript evaluates it (false when either side is NaN)
Lt(a, b) ==
  IF IsNaN(a) \/ IsNaN(b) THEN FALSE
  ELSE IF a[2] = 0 /\ b[2] = 0 THEN a[1] < b[1]
  ELSE IF a[2] = 0 THEN a[1] < 0
  ELSE IF b[2] = 0 THEN b[1] > 0
  ELSE a[1] * b[2] < b[1] * a[2]

Gt(a, b) == Lt(b, a)
Le(a, b) == ~IsNaN(a) /\ ~IsNaN(b) /\ ~Lt(b, a)
Ge(a, b) == Le(b, a)

RECURSIVE IntPow(_, _)
IntPow(b, e) == IF e <= 0 THEN 1 ELSE b * IntPow(b, e - 1)

\* Math.pow(x, j) for an integer exponent j (j <= 0 is only ever 0 here)
RECURSIVE PowInt(_, _)
PowInt(x, j) == IF j <= 0 THEN One ELSE Mul(x, PowInt(x, j - 1))

\* Math.log, in units of ln 2: k + (x / 2^k - 1) for 2^k <= x < 2^(k+1)
RECURSIVE Log2Pos(_, _)
Log2Pos(n, d) ==
  IF n >= 2 * d THEN Add(One, Log2Pos(n, 2 * d))
  ELSE IF n < d THEN Add(Num(0 - 1), Log2Pos(2 * n, d))
  ELSE Q(n - d, d)

Log(x) ==
  IF IsNaN(x) THEN NaN
  ELSE IF x[2] = 0 THEN (IF x[1] > 0 THEN PosInf ELSE NaN)
  ELSE IF x[1] < 0 THEN NaN
  ELSE IF x[1] = 0 THEN NegInf
  ELSE Log2Pos(x[1], x[2])

\* Math.exp, in units of ln 2: 2^k * (1 + f) for the exponent k + f,
\* 0 <= f < 1; overflows to Infinity and underflows to 0 beyond 2^(+-20)
Exp(r) ==
  IF IsNaN(r) THEN NaN
  ELSE IF r[2] = 0 THEN (IF r[1] > 0 THEN PosInf ELSE Zero)
  ELSE LET k == r[1] \div r[2]
           f == r[1] % r[2]
       IN  IF k >= 20 THEN PosInf
           ELSE IF k <= 0 - 20 THEN Zero
           ELSE IF k >= 0 THEN Q((r[2] + f) * IntPow(2, k), r[2])
           ELSE Q(r[2] + f, r[2] * IntPow(2, 0 - k))

\* Math.pow(x, b) for x > 0 and a real exponent b
Pow(x, b) == Exp(Mul(b, Log(x)))

\* the first three decimals of r / d, for 0 <= r < d
Frac3(r, d) ==
  LET d1 == (r * 10) \div d
      r1 == (r * 10) % d
      d2 == (r1 * 10) \div d
      r2 == (r1 * 10) % d
      d3 == (r2 * 10) \div d
  IN  100 * d1 + 10 * d2 + d3

\* a / b rounded to the nearest integer (a >= 0, b > 0)
RoundDiv(a, b) == (2 * a + b) \div (2 * b)

\* 1 / (1 + Math.exp(-z)) for z = zn / zd (zd > 0, any common factor),
\* rounded to four decimals; the exponent is read to three decimals
Sigmoid4(zn, zd) ==
  LET w == 0 - zn
      k == w \div zd
      f3 == Frac3(w % zd, zd)
  IN  IF k >= 20 THEN 0
      ELSE IF k <= 0 - 20 THEN 10000
      ELSE IF k >= 0
           THEN RoundDiv(10000 * 1000, 1000 + IntPow(2, k) * (1000 + f3))
           ELSE 10000 - RoundDiv(10000 * (1000 + f3),
                                 IntPow(2, 0 - k) * 1000 + 1000 + f3)

Sigmoid(z) ==
  IF IsNaN(z) THEN NaN
  ELSE IF z[2] = 0 THEN (IF z[1] > 0 THEN One ELSE Zero)
  ELSE Q(Sigmoid4(z[1], z[2]), 10000)

-----------------------------------------------------------------------------
(* Values of the engine *)

\* RegressionResult | null : <<>> is null, <<r>> is the result r
Null == <<>>
Some(r) == <<r>>

Point(x, y) == [x |-> x, y |-> y]

\* array.reduce((sum, v) => sum + v, 0)
RECURSIVE SumFrom(_, _, _)
SumFrom(s, i, acc) ==
  IF i > Len(s) THEN acc ELSE SumFrom(s, i + 1, Add(acc, s[i]))

Sum(s) == SumFrom(s, 1, Zero)

Square(v) == PowInt(v, 2)

\* 1 - ssRes / ssTot of the samples `data` against `predictions`
RSquared(data, predictions) ==
  LET n == Len(data)
      meanY == Div(Sum([i \in 1..n |-> data[i].y]), Num(n))
      ssRes == Sum([i \in 1..n |-> Square(Sub(data[i].y, predictions[i]))])
      ssTot == Sum([i \in 1..n |-> Square(Sub(data[i].y, meanY))])
  IN  Sub(One, Div(ssRes, ssTot))

\* calculateMetrics: the fields that are rational functions of the
\* residuals (rmse, standardError, aic, bic, fStatistic and pValue need
\* Math.sqrt, Math.log(2*PI*mse) or the F-distribution and are left out)
CalculateMetrics(data, predictions, numParams) ==
  LET n == Len(data)
      errors == [i \in 1..n |-> Sub(data[i].y, predictions[i])]
      absoluteErrors == [i \in 1..n |-> Abs(errors[i])]
      squaredErrors == [i \in 1..n |-> Mul(errors[i], errors[i])]
      percentageErrors ==
        [i \in 1..n |-> Abs(Mul(Div(errors[i], data[i].y), Num(100)))]
      mae == Div(Sum(absoluteErrors), Num(n))
      mse == Div(Sum(squaredErrors), Num(n))
      mape == Div(Sum(percentageErrors), Num(n))
      meanY == Div(Sum([i \in 1..n |-> data[i].y]), Num(n))
      ssRes == Sum(squaredErrors)
      ssTot == Sum([i \in 1..n |-> Square(Sub(data[i].y, meanY))])
      r2 == Sub(One, Div(ssRes, ssTot))
      adjustedR2 ==
        Sub(One, Div(Mul(Sub(One, r2), Num(n - 1)), Num(n - numParams - 1)))
  IN  [mae |-> mae, mse |-> mse, mape |-> mape, adjustedR2 |-> adjustedR2]

\* the points of a result: the x of each sample with the predicted y
PointsOf(data, predictions) ==
  [i \in 1..Len(data) |-> Point(data[i].x, predictions[i])]

-----------------------------------------------------------------------------
(* The fits.  `predict` holds what the closure of the result captures.  *)

\* the result object of linearRegression
LinearResult(data, intercept, slope, predictions) ==
  Some([type |-> "linear",
        equation |-> <<intercept, slope>>,
        coefficients |-> <<intercept, slope>>,
        r2 |-> RSquared(data, predictions),
        points |-> PointsOf(data, predictions),
        metrics |-> CalculateMetrics(data, predictions, 2),
        intercept |-> intercept,
        slope |-> slope,
        predict |-> [kind |-> "linear", c |-> <<intercept, slope>>,
                     degree |-> 1]])

\* the intercept taken as the mean of y, without the slope term
LinearFitMeanIntercept(data, sumX, sumY, slope) ==
  LET n == Len(data)
      intercept == Div(sumY, Num(n))
  IN  LinearResult(data, intercept, slope,
                   [i \in 1..n |-> Add(intercept, Mul(slope, data[i].x))])

\* intercept and predictions, from the slope
LinearFit(data, sumX, sumY, slope) ==
  LET n == Len(data)
      intercept == Div(Sub(sumY, Mul(slope, sumX)), Num(n))
  IN  LinearResult(data, intercept, slope,
                   [i \in 1..n |-> Add(intercept, Mul(slope, data[i].x))])

LinearRegression(data) ==
  IF Len(data) < 2 THEN Null
  ELSE
    LET n == Len(data)
        sumX == Sum([i \in 1..n |-> data[i].x])
        sumY == Sum([i \in 1..n |-> data[i].y])
        sumXY == Sum([i \in 1..n |-> Mul(data[i].x, data[i].y)])
        sumX2 == Sum([i \in 1..n |-> Mul(data[i].x, data[i].x)])
    IN  LinearFit(data, sumX, sumY,
                  Div(Sub(Mul(Num(n), sumXY), Mul(sumX, sumY)),
                      Sub(Mul(Num(n), sumX2), Mul(sumX, sumX))))

-----------------------------------------------------------------------------
(* Linear-system solver.  Rows and columns are numbered from 1: row i of   *)
(* the model is row i-1 of the code, column n+1 is the right-hand side.    *)

\* the singularity threshold 1e-10, as its decimal exponent
PivotTolExp == 10

RECURSIVE DivPow10(_, _)
DivPow10(m, e) == IF e <= 0 THEN m ELSE DivPow10(m \div 10, e - 1)

\* Math.abs(v) < 1e-10: |n| * 10^10 < d, i.e. |n| <= floor((d-1) / 10^10)
BelowPivotTol(v) ==
  v[2] # 0 /\ AbsInt(v[1]) <= DivPow10(v[2] - 1, PivotTolExp)

Augment(A, b) == [i \in 1..Len(A) |-> Append(A[i], b[i])]

\* the row with the largest |entry| of column i among rows i..n, the
\* first such row on ties
RECURSIVE FindMaxRow(_, _, _, _, _)
FindMaxRow(aug, i, k, maxRow, n) ==
  IF k > n THEN maxRow
  ELSE IF Gt(Abs(aug[k][i]), Abs(aug[maxRow][i]))
       THEN FindMaxRow(aug, i, k + 1, k, n)
       ELSE FindMaxRow(aug, i, k + 1, maxRow, n)

\* the swap left out: the rows stay where they are
SwapRowsSkipped(aug, i, m) == aug

SwapRows(aug, i, m) == [aug EXCEPT ![i] = aug[m], ![m] = aug[i]]

\* the elimination with the inner loop stopping at j < n: the right-hand
\* side column is left as it was
EliminateColumnWithoutRhs(aug, i, n) ==
  [k \in 1..n |->
     IF k <= i THEN aug[k]
     ELSE LET factor == Div(aug[k][i], aug[i][i])
          IN  [j \in 1..(n + 1) |->
                 IF j < i \/ j = n + 1 THEN aug[k][j]
                 ELSE Sub(aug[k][j], Mul(factor, aug[i][j]))]]

\* rows below i: row_k -= (row_k[i] / row_i[i]) * row_i on columns i..n+1
EliminateColumn(aug, i, n) ==
  [k \in 1..n |->
     IF k <= i THEN aug[k]
     ELSE LET factor == Div(aug[k][i], aug[i][i])
          IN  [j \in 1..(n + 1) |->
                 IF j < i THEN aug[k][j]
                 ELSE Sub(aug[k][j], Mul(factor, aug[i][j]))]]

\* the loop iteration without the check for a singular matrix
PivotStepUnchecked(aug, i, n) ==
  LET maxRow == FindMaxRow(aug, i, i + 1, i, n)
      swapped == SwapRows(aug, i, maxRow)
  IN  [singular |-> FALSE, maxRow |-> maxRow,
       aug |-> EliminateColumn(swapped, i, n)]

\* one iteration of the forward-elimination loop, for pivot column i
PivotStep(aug, i, n) ==
  LET maxRow == FindMaxRow(aug, i, i + 1, i, n)
      swapped == SwapRows(aug, i, maxRow)
  IN  IF BelowPivotTol(swapped[i][i])
      THEN [singular |-> TRUE, maxRow |-> maxRow, aug |-> swapped]
      ELSE [singular |-> FALSE, maxRow |-> maxRow,
            aug |-> EliminateColumn(swapped, i, n)]

RECURSIVE ForwardElimination(_, _, _)
ForwardElimination(aug, i, n) ==
  IF i > n THEN [singular |-> FALSE, aug |-> aug]
  ELSE LET s == PivotStep(aug, i, n)
       IN  IF s.singular THEN [singular |-> TRUE, aug |-> s.aug]
           ELSE ForwardElimination(s.aug, i + 1, n)

RECURSIVE RowTail(_, _, _, _, _)
RowTail(row, x, j, n, acc) ==
  IF j > n THEN acc ELSE RowTail(row, x, j + 1, n, Add(acc, Mul(row[j], x[j])))

\* x[i] for i = n down to 1, starting from new Array(n).fill(0)
RECURSIVE BackSubstitution(_, _, _, _)
BackSubstitution(aug, i, x, n) ==
  IF i < 1 THEN x
  ELSE LET sum == RowTail(aug[i], x, i + 1, n, Zero)
           xi == Div(Sub(aug[i][n + 1], sum), aug[i][i])
       IN  BackSubstitution(aug, i - 1, [x EXCEPT ![i] = xi], n)

\* number[] | null
GaussianElimination(A, b) ==
  LET n == Len(A)
      f == ForwardElimination(Augment(A, b), 1, n)
  IN  IF f.singular THEN Null
      ELSE Some(BackSubstitution(f.aug, n, [i \in 1..n |-> Zero], n))

\* X^T y built without the factor X[k][i]
SolveNormalEquationsPlainRhs(X, y) ==
  LET n == Len(X)
      p == Len(X[1])
      XtX == [i \in 1..p |-> [j \in 1..p |->
                Sum([k \in 1..n |-> Mul(X[k][i], X[k][j])])]]
      Xty == [i \in 1..p |-> Sum([k \in 1..n |-> y[k]])]
  IN  GaussianElimination(XtX, Xty)

SolveNormalEquations(X, y) ==
  LET n == Len(X)
      p == Len(X[1])
      XtX == [i \in 1..p |-> [j \in 1..p |->
                Sum([k \in 1..n |-> Mul(X[k][i], X[k][j])])]]
      Xty == [i \in 1..p |-> Sum([k \in 1..n |-> Mul(X[k][i], y[k])])]
  IN  GaussianElimination(XtX, Xty)

-----------------------------------------------------------------------------

\* coefficients[0] + sum of coefficients[j] * x^j for j = 1..degree
RECURSIVE PolyEval(_, _, _, _, _)
PolyEval(c, x, j, degree, pred) ==
  IF j > degree THEN pred
  ELSE PolyEval(c, x, j + 1, degree, Add(pred, Mul(c[j + 1], PowInt(x, j))))

\* the row [1, x, x^2, ..., x^degree] of the design matrix
DesignRow(x, degree) ==
  [j \in 1..(IF degree >= 1 THEN degree + 1 ELSE 1) |-> PowInt(x, j - 1)]

\* an exception raised inside the try block (the Error of the default
\* branch, a TypeError of a read through null), as a value
Throw == <<[type |-> "Error"]>>
IsThrow(r) == r # Null /\ r[1].type = "Error"

PolynomialSolve(data, degree) ==
  SolveNormalEquations([i \in 1..Len(data) |-> DesignRow(data[i].x, degree)],
                       [i \in 1..Len(data) |-> data[i].y])

\* the result built from a coefficient vector
PolynomialResult(data, degree, coefficients) ==
  LET predictions ==
        [i \in 1..Len(data) |->
           PolyEval(coefficients, data[i].x, 1, degree, coefficients[1])]
  IN  Some([type |-> "polynomial",
            equation |-> coefficients,
            coefficients |-> coefficients,
            r2 |-> RSquared(data, predictions),
            points |-> PointsOf(data, predictions),
            metrics |-> CalculateMetrics(data, predictions, degree + 1),
            predict |-> [kind |-> "polynomial", c |-> coefficients,
                         degree |-> degree]])

\* polynomialRegression fitting the largest degree the samples determine,
\* in place of returning null on too few samples
PolynomialRegressionClamped(data, degree) ==
  LET d == IF Len(data) < degree + 1 THEN Len(data) - 1 ELSE degree
      solved == PolynomialSolve(data, d)
  IN  IF solved = Null THEN Null
      ELSE PolynomialResult(data, d, solved[1])

\* polynomialRegression without `if (!coefficients) return null`: reading
\* coefficients[0] of null raises a TypeError
PolynomialRegressionUnguarded(data, degree) ==
  IF Len(data) < degree + 1 THEN Null
  ELSE LET solved == PolynomialSolve(data, degree)
       IN  IF solved = Null THEN Throw
           ELSE PolynomialResult(data, degree, solved[1])

PolynomialRegression(data, degree) ==
  IF Len(data) < degree + 1 THEN Null
  ELSE LET solved == PolynomialSolve(data, degree)
       IN  IF solved = Null THEN Null
           ELSE PolynomialResult(data, degree, solved[1])

\* The predicates of the filters: array.filter(keep) is SelectSeq(array, keep).

\* the filter of exponentialRegression written with >= in place of >
ExpUsableWithZero(point) == Ge(point.y, Zero)

ExpUsable(point) == Gt(point.y, Zero)
LogUsable(point) == Gt(point.x, Zero)
\* the filter of powerRegression without its condition on y
PowerUsableXOnly(point) == Gt(point.x, Zero)

PowerUsable(point) == Gt(point.x, Zero) /\ Gt(point.y, Zero)
LogisticUsable(point) == Ge(point.y, Zero) /\ Le(point.y, One)

\* the result object of exponentialRegression
ExponentialResult(validData, a, b, predictions) ==
  Some([type |-> "exponential",
        equation |-> <<a, b>>,
        coefficients |-> <<a, b>>,
        r2 |-> RSquared(validData, predictions),
        points |-> PointsOf(validData, predictions),
        metrics |-> CalculateMetrics(validData, predictions, 2),
        predict |-> [kind |-> "exponential", c |-> <<a, b>>, degree |-> 1]])

\* the result reporting the R2 and the metrics of the inner linear fit
ExponentialFitInnerStatistics(validData, linearResult) ==
  IF linearResult = Null THEN Null
  ELSE
    LET a == Exp(linearResult[1].intercept)
        b == linearResult[1].slope
        outer == ExponentialResult(validData, a, b,
                   [i \in 1..Len(validData) |->
                      Mul(a, Exp(Mul(b, validData[i].x)))])
    IN  Some([outer[1] EXCEPT !.r2 = linearResult[1].r2,
                              !.metrics = linearResult[1].metrics])

\* back-transformation of the linear fit and the predictions
ExponentialFit(validData, linearResult) ==
  IF linearResult = Null THEN Null
  ELSE
    LET a == Exp(linearResult[1].intercept)
        b == linearResult[1].slope
    IN  ExponentialResult(validData, a, b,
          [i \in 1..Len(validData) |-> Mul(a, Exp(Mul(b, validData[i].x)))])

ExponentialRegression(data) ==
  IF Len(data) < 2 THEN Null
  ELSE
    LET validData == SelectSeq(data, ExpUsable)
    IN  IF Len(validData) < 2 THEN Null
        ELSE ExponentialFit(validData,
               LinearRegression(
                 [i \in 1..Len(validData) |->
                    Point(validData[i].x, Log(validData[i].y))]))

\* the result object of logarithmicRegression
LogarithmicResult(validData, a, b, predictions) ==
  Some([type |-> "logarithmic",
        equation |-> <<a, b>>,
        coefficients |-> <<a, b>>,
        r2 |-> RSquared(validData, predictions),
        points |-> PointsOf(validData, predictions),
        metrics |-> CalculateMetrics(validData, predictions, 2),
        predict |-> [kind |-> "logarithmic", c |-> <<a, b>>, degree |-> 1]])

\* back-transformation of the linear fit and the predictions
LogarithmicFit(validData, linearResult) ==
  IF linearResult = Null THEN Null
  ELSE
    LET a == linearResult[1].intercept
        b == linearResult[1].slope
    IN  LogarithmicResult(validData, a, b,
          [i \in 1..Len(validData) |-> Add(a, Mul(b, Log(validData[i].x)))])

LogarithmicRegression(data) ==
  IF Len(data) < 2 THEN Null
  ELSE
    LET validData == SelectSeq(data, LogUsable)
    IN  IF Len(validData) < 2 THEN Null
        ELSE LogarithmicFit(validData,
               LinearRegression(
                 [i \in 1..Len(validData) |->
                    Point(Log(validData[i].x), validData[i].y)]))

\* the result object of powerRegression
PowerResult(validData, a, b, predictions) ==
  Some([type |-> "power",
        equation |-> <<a, b>>,
        coefficients |-> <<a, b>>,
        r2 |-> RSquared(validData, predictions),
        points |-> PointsOf(validData, predictions),
        metrics |-> CalculateMetrics(validData, predictions, 2),
        predict |-> [kind |-> "power", c |-> <<a, b>>, degree |-> 1]])

\* back-transformation of the linear fit and the predictions
\* the back-transformation without Math.exp: a = intercept
PowerFitWithoutExp(validData, linearResult) ==
  IF linearResult = Null THEN Null
  ELSE
    LET a == linearResult[1].intercept
        b == linearResult[1].slope
    IN  PowerResult(validData, a, b,
          [i \in 1..Len(validData) |-> Mul(a, Pow(validData[i].x, b))])

PowerFit(validData, linearResult) ==
  IF linearResult = Null THEN Null
  ELSE
    LET a == Exp(linearResult[1].intercept)
        b == linearResult[1].slope
    IN  PowerResult(validData, a, b,
          [i \in 1..Len(validData) |-> Mul(a, Pow(validData[i].x, b))])

PowerRegression(data) ==
  IF Len(data) < 2 THEN Null
  ELSE
    LET validData == SelectSeq(data, PowerUsable)
    IN  IF Len(validData) < 2 THEN Null
        ELSE PowerFit(validData,
               LinearRegression(
                 [i \in 1..Len(validData) |->
                    Point(Log(validData[i].x), Log(validData[i].y))]))

-----------------------------------------------------------------------------
(* Logistic fit.  Inside the gradient-descent loop beta0 and beta1 are     *)
(* integers counted in the unit 1/U, U = (1/learningRate) * n * 10^4 * Dx  *)
(* * Dy, where Dx and Dy are the common denominators of the x and y of the *)
(* filtered samples and 10^4 the resolution of the sigmoid: every value    *)
(* the loop computes is a whole number of such units, so the loop is exact.*)

\* learningRate = 0.01, as its inverse
LearningRateInv == 100
MaxIterations == 1000
\* tolerance = 1e-6, as its inverse
ToleranceInv == 1000000

Lcm(a, b) == (a \div Gcd(a, b)) * b

\* the common denominator of the x (the y) of the samples
RECURSIVE CommonDenX(_, _, _)
CommonDenX(data, i, acc) ==
  IF i > Len(data) THEN acc
  ELSE CommonDenX(data, i + 1, Lcm(acc, data[i].x[2]))

RECURSIVE CommonDenY(_, _, _)
CommonDenY(data, i, acc) ==
  IF i > Len(data) THEN acc
  ELSE CommonDenY(data, i + 1, Lcm(acc, data[i].y[2]))

BetaUnit(validData) ==
  LearningRateInv * Len(validData) * 10000
    * CommonDenX(validData, 1, 1) * CommonDenY(validData, 1, 1)

\* the body of `for (const point of validData)`: <<grad0, grad1>> scaled by
\* learningRate / n, in units 1/U
RECURSIVE Gradient(_, _, _, _, _, _, _, _, _)
Gradient(validData, i, b0, b1, U, Dx, Dy, g0, g1) ==
  IF i > Len(validData) THEN <<g0, g1>>
  ELSE
    LET x == validData[i].x
        y == validData[i].y
        \* z = beta0 + beta1 * x ; p = 1 / (1 + exp(-z))
        p == Sigmoid4(b0 * x[2] + b1 * x[1], U * x[2])
        \* error = p - y, in units 1/(10^4 * Dy)
        error == p * Dy - y[1] * (Dy \div y[2]) * 10000
    IN  Gradient(validData, i + 1, b0, b1, U, Dx, Dy,
                 g0 + error * Dx, g1 + error * x[1] * (Dx \div x[2]))

\* |delta| < tolerance, for delta = g / U : |g| * (1/tolerance) < U
BelowTolerance(g, U) == AbsInt(g) <= (U - 1) \div ToleranceInv

\* the test written with || in place of &&
ConvergedEither(g0, g1, U) == BelowTolerance(g0, U) \/ BelowTolerance(g1, U)

\* the test that leaves the loop
Converged(g0, g1, U) == BelowTolerance(g0, U) /\ BelowTolerance(g1, U)

\* one iteration of the loop from <<beta0, beta1>>: the new parameters
\* (newBeta = beta - g) and whether the iteration breaks
LogisticIteration(validData, b0, b1, U, Dx, Dy) ==
  LET g == Gradient(validData, 1, b0, b1, U, Dx, Dy, 0, 0)
  IN  [break |-> Converged(g[1], g[2], U),
       beta0 |-> b0 - g[1], beta1 |-> b1 - g[2]]

\* one pass of `for (iter = 0; iter < maxIterations; iter++)` from the loop
\* state st; left = TRUE once the loop has been left by `break`
LoopStep(validData, st, U, Dx, Dy) ==
  IF st.left THEN st
  ELSE LET s == LogisticIteration(validData, st.beta0, st.beta1, U, Dx, Dy)
       IN  IF s.break THEN [st EXCEPT !.left = TRUE]
           ELSE [beta0 |-> s.beta0, beta1 |-> s.beta1,
                 iter |-> st.iter + 1, left |-> FALSE]

\* `count` consecutive passes (evaluated by halving, to bound the depth of
\* the evaluation)
RECURSIVE LoopRun(_, _, _, _, _, _)
LoopRun(validData, st, count, U, Dx, Dy) ==
  IF count <= 0 \/ st.left THEN st
  ELSE IF count = 1 THEN LoopStep(validData, st, U, Dx, Dy)
  ELSE LoopRun(validData,
               LoopRun(validData, st, count \div 2, U, Dx, Dy),
               count - (count \div 2), U, Dx, Dy)

\* the whole loop: the parameters and the value of iter when it is left
LogisticLoop(validData) ==
  LoopRun(validData, [beta0 |-> 0, beta1 |-> 0, iter |-> 0, left |-> FALSE],
          MaxIterations, BetaUnit(validData),
          CommonDenX(validData, 1, 1), CommonDenY(validData, 1, 1))

\* the result object of logisticRegression
LogisticResult(validData, beta0, beta1, predictions) ==
  Some([type |-> "logistic",
        equation |-> <<beta0, beta1>>,
        coefficients |-> <<beta0, beta1>>,
        r2 |-> RSquared(validData, predictions),
        points |-> PointsOf(validData, predictions),
        metrics |-> CalculateMetrics(validData, predictions, 2),
        predict |-> [kind |-> "logistic", c |-> <<beta0, beta1>>,
                     degree |-> 1]])

\* the predictions from the parameters the loop ends with
LogisticFit(validData, beta0, beta1) ==
  LogisticResult(validData, beta0, beta1,
    [i \in 1..Len(validData) |->
       Sigmoid(Add(beta0, Mul(beta1, validData[i].x)))])

\* the parameters of the loop state, as numbers
LogisticParameters(validData, fit, U) ==
  LogisticFit(validData, Q(fit.beta0, U), Q(fit.beta1, U))

LogisticRegression(data) ==
  IF Len(data) < 2 THEN Null
  ELSE
    LET validData == SelectSeq(data, LogisticUsable)
    IN  IF Len(validData) < 2 THEN Null
        ELSE LogisticParameters(validData, LogisticLoop(validData),
                                BetaUnit(validData))

\* result.predict(x)
Predict(f, x) ==
  CASE f.kind = "linear" -> Add(f.c[1], Mul(f.c[2], x))
    [] f.kind = "polynomial" -> PolyEval(f.c, x, 1, f.degree, f.c[1])
    [] f.kind = "exponential" -> Mul(f.c[1], Exp(Mul(f.c[2], x)))
    [] f.kind = "logarithmic" -> Add(f.c[1], Mul(f.c[2], Log(x)))
    [] f.kind = "power" -> Mul(f.c[1], Pow(x, f.c[2]))
    [] f.kind = "logistic" -> Sigmoid(Add(f.c[1], Mul(f.c[2], x)))

-----------------------------------------------------------------------------
(* performRegression and getAvailableRegressionTypes *)

Kinds ==
  {"linear", "polynomial", "exponential", "logarithmic", "power", "logistic"}

\* the body of the try block: the switch over the kind
TryBlock(data, type, order) ==
  CASE type = "linear" -> LinearRegression(data)
    [] type = "polynomial" -> PolynomialRegression(data, order)
    [] type = "exponential" -> ExponentialRegression(data)
    [] type = "logarithmic" -> LogarithmicRegression(data)
    [] type = "power" -> PowerRegression(data)
    [] type = "logistic" -> LogisticRegression(data)
    [] OTHER -> Throw

\* a catch block that rethrows in place of returning null
CatchBlockRethrows(value) ==
  [value |-> value, threw |-> TRUE, console |-> "error"]

\* catch (error) { console.error(...); return null; }
CatchBlock(value) == [value |-> Null, threw |-> FALSE, console |-> "error"]

\* try { ... console.log(...); return result; } catch ...: what the call
\* returns, whether it throws to its caller, what it writes to the console
TryCatch(value) ==
  IF IsThrow(value) THEN CatchBlock(value)
  ELSE [value |-> value, threw |-> FALSE, console |-> "log"]

PerformRegressionCall(data, type, order) ==
  IF Len(data) < 2 THEN [value |-> Null, threw |-> FALSE, console |-> "none"]
  ELSE TryCatch(TryBlock(data, type, order))

\* hasPositiveY written with >= in place of >
HasNonNegativeY(data) == \E i \in 1..Len(data) : ExpUsableWithZero(data[i])

HasPositiveY(data) == \E i \in 1..Len(data) : ExpUsable(data[i])
HasPositiveX(data) == \E i \in 1..Len(data) : LogUsable(data[i])
\* hasPositiveBoth written with every in place of some
HasPositiveBothEvery(data) == \A i \in 1..Len(data) : PowerUsable(data[i])

HasPositiveBoth(data) == \E i \in 1..Len(data) : PowerUsable(data[i])
HasValidLogistic(data) == \E i \in 1..Len(data) : LogisticUsable(data[i])

GetAvailableRegressionTypesCall(data) ==
  <<"linear", "polynomial">>
    \o (IF HasPositiveY(data) THEN <<"exponential">> ELSE <<>>)
    \o (IF HasPositiveX(data) THEN <<"logarithmic">> ELSE <<>>)
    \o (IF HasPositiveBoth(data) THEN <<"power">> ELSE <<>>)
    \o (IF HasValidLogistic(data) THEN <<"logistic">> ELSE <<>>)

-----------------------------------------------------------------------------
(* State *)

VARIABLES
  data,            \* the sample array handed to the engine
  callType,        \* kind of the last performRegression call, "none" before
  callOrder,       \* its order argument
  result,          \* what it returned: Null or Some(result)
  threw,           \* whether it threw to its caller
  console,         \* what it wrote: "none", "log" or "error"
  availableTypes,  \* what the last getAvailableRegressionTypes call returned
  gA, gb,          \* arguments of a gaussianElimination call
  gAug,            \* its local `augmented`
  gI,              \* its loop index i (from 1), n + 1 after the loop
  gPc,             \* "forward", "back", "singular" (returned null), "done"
  gMaxRow,         \* maxRow of the last pivot step
  gX,              \* the vector it returned, <<>> before
  lBeta0, lBeta1,  \* beta0 and beta1 of a logisticRegression call, in units
  lIter,           \* its loop counter iter
  lPc,             \* "loop" inside the descent, "done" after the return
  selectedModel,       \* page state: the kind shown
  regressionResults,   \* page state: kind -> Null or Some(result)
  calculatedModels,    \* page state: the Set of kinds, in insertion order
  isDataValidated,     \* page state
  isCalculatingAll,    \* page state
  toast,               \* title of the last toast, "none" before
  datasets,            \* page state: the Dataset[] of the manager
  selectedVariables,   \* page state: [x, y], each Null or Some(selection)
  uploads,             \* handleFileSelect calls waiting for parseFile
  now,                 \* Date.now()
  lastCall             \* the handler that ran last, with its arguments

engineVars == <<data, callType, callOrder, result, threw, console,
                availableTypes>>
gaussVars == <<gA, gb, gAug, gI, gPc, gMaxRow, gX>>
loopVars == <<lBeta0, lBeta1, lIter, lPc>>
managerVars == <<datasets, selectedVariables, uploads, now>>
pageVars == <<selectedModel, regressionResults, calculatedModels,
              isDataValidated, isCalculatingAll, toast,
              datasets, selectedVariables, uploads, now, lastCall>>
vars == <<data, callType, callOrder, result, threw, console, availableTypes,
          gA, gb, gAug, gI, gPc, gMaxRow, gX,
          lBeta0, lBeta1, lIter, lPc,
          selectedModel, regressionResults, calculatedModels,
          isDataValidated, isCalculatingAll, toast,
          datasets, selectedVariables, uploads, now, lastCall>>

\* the samples the sample arrays are drawn from
Samples ==
  { Point(Num(0), Num(0)), Point(Num(1), Num(1)), Point(Num(2), Num(4)),
    Point(Num(2), Num(0 - 1)), Point(Num(0 - 1), Num(2)) }

SampleArrays == UNION { [1..k -> Samples] : k \in 0..MaxLen }

\* the kinds a caller passes, one of them unsupported
CallTypes == Kinds \cup {"spline"}

\* order = 2, the default of the parameter
DefaultOrder == 2

\* the order arguments: every order where the switch hands it on, the
\* default for the kinds that never read it
OrdersOf(type) ==
  IF type = "polynomial" THEN (0 - 1)..MaxOrder ELSE {DefaultOrder}

EngineIdle ==
  /\ callType = "none" /\ callOrder = 0 /\ result = Null /\ threw = FALSE
  /\ console = "none" /\ availableTypes = <<>>

GaussIdle ==
  /\ gA = <<>> /\ gb = <<>> /\ gAug = <<>> /\ gI = 0 /\ gPc = "idle"
  /\ gMaxRow = 0 /\ gX = <<>>

LoopIdle == lBeta0 = 0 /\ lBeta1 = 0 /\ lIter = 0 /\ lPc = "idle"

\* the page as its useState calls leave it
NoResults == [k \in Kinds |-> Null]

\* a handler call: its name and its arguments, the ones it does not take
\* left empty
Call(op, id, column, pair, axis, kind) ==
  [op |-> op, id |-> id, column |-> column, pair |-> pair, axis |-> axis,
   kind |-> kind]

NoCall == Call("none", 0, <<>>, <<>>, "", "")

ManagerIdle ==
  /\ datasets = <<>> /\ selectedVariables = [x |-> Null, y |-> Null]
  /\ uploads = <<>> /\ now = 1 /\ lastCall = NoCall

PageIdle ==
  /\ selectedModel = "linear" /\ regressionResults = NoResults
  /\ calculatedModels = <<>> /\ isDataValidated = FALSE
  /\ isCalculatingAll = FALSE /\ toast = "none"
  /\ ManagerIdle

Init ==
  /\ data \in SampleArrays
  /\ EngineIdle
  /\ GaussIdle
  /\ LoopIdle
  /\ PageIdle

\* One call of performRegression.  The engine keeps no state between
\* calls, so a behaviour makes one call, and the query of the available
\* types (a function of the samples alone) comes after it.
PerformRegression(type, order) ==
  /\ callType = "none"
  /\ availableTypes = <<>>
  /\ \E r \in {PerformRegressionCall(data, type, order)} :
       /\ callType' = type
       /\ callOrder' = order
       /\ result' = r.value
       /\ threw' = r.threw
       /\ console' = r.console
  /\ UNCHANGED <<data, availableTypes>>
  /\ UNCHANGED gaussVars
  /\ UNCHANGED loopVars
  /\ UNCHANGED pageVars

GetAvailableRegressionTypes ==
  /\ availableTypes' = GetAvailableRegressionTypesCall(data)
  /\ UNCHANGED <<data, callType, callOrder, result, threw, console>>
  /\ UNCHANGED gaussVars
  /\ UNCHANGED loopVars
  /\ UNCHANGED pageVars

Next ==
  \/ \E type \in CallTypes : \E order \in OrdersOf(type) :
       PerformRegression(type, order)
  \/ GetAvailableRegressionTypes

Spec == Init /\ [][Next]_vars

-----------------------------------------------------------------------------
(* gaussianElimination, one loop iteration at a time *)

\* largest dimension of the systems handed to the solver
MaxDim == 3

\* the rows the matrices are made of, for dimension n
GaussRows(n) ==
  { [j \in 1..n |-> Num(0)],
    [j \in 1..n |-> Num(1)],
    [j \in 1..n |-> Num(j)],
    [j \in 1..n |-> Num(n + 1 - j)],
    [j \in 1..n |-> Num(j * j)],
    [j \in 1..n |-> IF j = n THEN Num(2) ELSE Num(0)],
    [j \in 1..n |-> IF j % 2 = 1 THEN Num(0 - 1) ELSE Num(2)] }

\* the right-hand sides, for dimension n
GaussRhs(n) == { [i \in 1..n |-> Num(i)], [i \in 1..n |-> Num(3 - i * i)] }

GaussInit ==
  /\ data = <<>>
  /\ EngineIdle
  /\ LoopIdle
  /\ PageIdle
  /\ \E n \in 1..MaxDim :
       /\ gA \in [1..n -> GaussRows(n)]
       /\ gb \in GaussRhs(n)
  /\ gAug = Augment(gA, gb)
  /\ gI = 1
  /\ gPc = "forward"
  /\ gMaxRow = 0
  /\ gX = <<>>

\* one iteration of the forward-elimination loop
GaussPivot ==
  /\ gPc = "forward"
  /\ \E s \in {PivotStep(gAug, gI, Len(gA))} :
       /\ gAug' = s.aug
       /\ gMaxRow' = s.maxRow
       /\ IF s.singular
          THEN gPc' = "singular" /\ gI' = gI
          ELSE /\ gI' = gI + 1
               /\ gPc' = IF gI + 1 > Len(gA) THEN "back" ELSE "forward"
  /\ UNCHANGED <<gA, gb, gX>>
  /\ UNCHANGED engineVars
  /\ UNCHANGED loopVars
  /\ UNCHANGED pageVars

\* the back-substitution loop and the return of x
GaussBackSubstitute ==
  /\ gPc = "back"
  /\ gX' = BackSubstitution(gAug, Len(gA), [i \in 1..Len(gA) |-> Zero], Len(gA))
  /\ gPc' = "done"
  /\ UNCHANGED <<gA, gb, gAug, gI, gMaxRow>>
  /\ UNCHANGED engineVars
  /\ UNCHANGED loopVars
  /\ UNCHANGED pageVars

GaussNext == GaussPivot \/ GaussBackSubstitute

SpecGauss == GaussInit /\ [][GaussNext]_vars

-----------------------------------------------------------------------------
(* The engine on samples that lie exactly on a curve of a fitted family *)

\* c[1] + c[2] x + ... + c[d+1] x^d
PolynomialAt(c, x) == Sum([j \in 1..Len(c) |-> Mul(c[j], PowInt(x, j - 1))])

\* a * x^b for an integer exponent b
PowerAt(a, b, x) ==
  IF b >= 0 THEN Mul(a, PowInt(x, b)) ELSE Div(a, PowInt(x, 0 - b))

\* the abscissas of the sample arrays
XArrays ==
  { <<Num(0), Num(1)>>,
    <<Num(0), Num(1), Num(2), Num(3)>>,
    <<Num(1), Num(1), Num(3)>>,
    <<Num(0 - 1), Q(1, 2), Num(2)>>,
    <<Num(2), Num(2)>> }

\* the coefficient vectors of the polynomials the samples are taken from:
\* lines a + b x (b = 0 among them) and polynomials of degree 2 and 3
Polynomials ==
  { <<a, b>> : a \in {Num(2), Num(0), Q(1, 2)},
               b \in {Num(3), Num(0 - 1), Q(1, 2), Num(0)} }
    \cup { <<Num(1), Num(2), Num(3)>>, <<Num(0), Num(0), Num(1)>>,
           <<Num(1), Num(0 - 1), Q(1, 2)>>,
           <<Num(0), Num(1), Num(0), Num(1)>> }

PolynomialArrays ==
  { [i \in 1..Len(xs) |-> Point(xs[i], PolynomialAt(c, xs[i]))] :
      c \in Polynomials, xs \in XArrays }

\* the power laws y = a x^b the samples are taken from, and their x
PowerScales == {Num(2), Num(1), Q(1, 2)}
PowerExponents == {2, 1, 0 - 1}
PowerXArrays ==
  { <<Num(1), Num(2), Num(4)>>, <<Num(2), Q(1, 2)>>, <<Num(4), Num(4)>> }

PowerArrays ==
  { [i \in 1..Len(xs) |-> Point(xs[i], PowerAt(a, b, xs[i]))] :
      a \in PowerScales, b \in PowerExponents, xs \in PowerXArrays }

RecoveryInit ==
  /\ data \in PolynomialArrays \cup PowerArrays
  /\ EngineIdle
  /\ GaussIdle
  /\ LoopIdle
  /\ PageIdle

\* the kinds whose family the samples are taken from
RecoveryKinds == {"linear", "polynomial", "power"}

RecoveryNext ==
  \E type \in RecoveryKinds : \E order \in OrdersOf(type) :
    PerformRegression(type, order)

SpecRecovery == RecoveryInit /\ [][RecoveryNext]_vars

-----------------------------------------------------------------------------
(* Sequences of engine calls on one sample array *)

\* the engine is synchronous: no call starts while gaussianElimination is
\* inside its loops
EngineAtRest == gPc \notin {"forward", "back"}

\* a call whose exponential filter works on the argument array itself
CallPerformRegressionInPlace(type, order) ==
  /\ EngineAtRest
  /\ \E r \in {PerformRegressionCall(data, type, order)} :
       /\ callType' = type
       /\ callOrder' = order
       /\ result' = r.value
       /\ threw' = r.threw
       /\ console' = r.console
  /\ data' = IF type = "exponential" THEN SelectSeq(data, ExpUsable) ELSE data
  /\ UNCHANGED availableTypes
  /\ UNCHANGED gaussVars
  /\ UNCHANGED loopVars
  /\ UNCHANGED pageVars

\* a call of performRegression, whatever was called before
CallPerformRegression(type, order) ==
  /\ EngineAtRest
  /\ \E r \in {PerformRegressionCall(data, type, order)} :
       /\ callType' = type
       /\ callOrder' = order
       /\ result' = r.value
       /\ threw' = r.threw
       /\ console' = r.console
  /\ UNCHANGED <<data, availableTypes>>
  /\ UNCHANGED gaussVars
  /\ UNCHANGED loopVars
  /\ UNCHANGED pageVars

\* a call of getAvailableRegressionTypes, whatever was called before
CallGetAvailableRegressionTypes ==
  /\ EngineAtRest
  /\ GetAvailableRegressionTypes

\* the sample arrays the calls are repeated on
CallArrays ==
  { <<Point(Num(0), Num(0)), Point(Num(1), Num(1)), Point(Num(2), Num(4))>>,
    <<Point(Num(2), Num(4)), Point(Num(2), Num(0 - 1))>>,
    <<Point(Num(1), Num(2)), Point(Num(2), Num(8)), Point(Num(4), Num(32))>>,
    <<Point(Num(0), Num(0)), Point(Num(1), Num(1)),
      Point(Num(0), Num(1)), Point(Num(1), Num(0))>>,
    <<Point(Num(0 - 1), Num(2)), Point(Num(0), Num(0)),
      Point(Num(1), Num(1))>>,
    <<Point(Num(1), Num(1))>> }

\* either calls of the engine on a sample array, or a system in the solver
CallsInit ==
  \/ /\ data \in CallArrays
     /\ EngineIdle
     /\ GaussIdle
     /\ LoopIdle
     /\ PageIdle
  \/ GaussInit

CallsNext ==
  \/ \E type \in CallTypes : \E order \in OrdersOf(type) :
       CallPerformRegression(type, order)
  \/ CallGetAvailableRegressionTypes
  \/ GaussNext

SpecCalls == CallsInit /\ [][CallsNext]_vars

-----------------------------------------------------------------------------
(* logisticRegression, one pass of its loop at a time *)

\* the loop test with <= in place of <
LoopContinuesOneMore(iter) == iter <= MaxIterations

\* iter < maxIterations
LoopContinues(iter) == iter < MaxIterations

\* the sample arrays the descent is run on
LogisticArrays ==
  { <<Point(Num(0), Num(0)), Point(Num(1), Num(1))>>,
    <<Point(Num(0), Num(0)), Point(Num(1), Num(1)),
      Point(Num(0), Num(1)), Point(Num(1), Num(0))>>,
    <<Point(Num(0), Num(1)), Point(Num(1), Num(1))>>,
    <<Point(Num(0), Num(1)), Point(Num(0), Num(1))>>,
    <<Point(Num(4), Q(13, 25)), Point(Num(4), Q(13, 25))>>,
    <<Point(Num(0 - 1), Q(1, 4)), Point(Num(3), Num(2)),
      Point(Num(2), Q(3, 4))>>,
    <<Point(Num(2), Num(4)), Point(Num(0), Num(1))>>,
    <<Point(Num(0), Num(1))>>,
    <<>> }

LogisticInit ==
  /\ data \in LogisticArrays
  /\ EngineIdle
  /\ GaussIdle
  /\ LoopIdle
  /\ PageIdle

\* the two guards and the initialisation of beta0, beta1 and iter
LogisticEnter ==
  /\ lPc = "idle"
  /\ IF Len(data) < 2 \/ Len(SelectSeq(data, LogisticUsable)) < 2
     THEN /\ lPc' = "done"
          /\ UNCHANGED <<lBeta0, lBeta1, lIter>>
     ELSE /\ lPc' = "loop"
          /\ lBeta0' = 0 /\ lBeta1' = 0 /\ lIter' = 0
  /\ UNCHANGED engineVars
  /\ UNCHANGED gaussVars
  /\ UNCHANGED pageVars

\* the loop test and, when it passes, the loop body
LogisticPass(validData, U) ==
  IF ~LoopContinues(lIter)
  THEN /\ lPc' = "exit"
       /\ UNCHANGED <<lBeta0, lBeta1, lIter>>
  ELSE \E s \in {LogisticIteration(validData, lBeta0, lBeta1, U,
                    CommonDenX(validData, 1, 1),
                    CommonDenY(validData, 1, 1))} :
         IF s.break
         THEN /\ lPc' = "exit"
              /\ UNCHANGED <<lBeta0, lBeta1, lIter>>
         ELSE /\ lBeta0' = s.beta0 /\ lBeta1' = s.beta1
              /\ lIter' = lIter + 1
              /\ UNCHANGED lPc

LogisticIterate ==
  /\ lPc = "loop"
  /\ \E validData \in {SelectSeq(data, LogisticUsable)} :
       LogisticPass(validData, BetaUnit(validData))
  /\ UNCHANGED engineVars
  /\ UNCHANGED gaussVars
  /\ UNCHANGED pageVars

\* the code after the loop, up to the return
LogisticReturn ==
  /\ lPc = "exit"
  /\ lPc' = "done"
  /\ \E validData \in {SelectSeq(data, LogisticUsable)} :
       result' = LogisticParameters(validData,
                   [beta0 |-> lBeta0, beta1 |-> lBeta1],
                   BetaUnit(validData))
  /\ UNCHANGED <<lBeta0, lBeta1, lIter>>
  /\ UNCHANGED <<data, callType, callOrder, threw, console, availableTypes>>
  /\ UNCHANGED gaussVars
  /\ UNCHANGED pageVars

LogisticNext == LogisticEnter \/ LogisticIterate \/ LogisticReturn

\* what every step of the function does to its position: until the return
\* the position moves on or iter grows
LoopAdvances ==
  /\ lPc # "done"
  /\ lPc' \in {"loop", "exit", "done"}
  /\ lIter' \in {lIter, lIter + 1}

\* the function is synchronous code: until it has returned, it takes its
\* next step
SpecLogistic ==
  LogisticInit /\ [][LogisticNext]_vars /\ WF_<<lPc, lIter>>(LoopAdvances)

-----------------------------------------------------------------------------
(* The page: calculateAllModels and the selection of a model *)

\* the order argument of the page's calls: 2 for the polynomial kind,
\* undefined (so the default) for the others
OrderArgument(modelType) ==
  IF modelType = "polynomial" THEN 2 ELSE DefaultOrder

\* the record `results` after the loop over availableTypes
AllResults(processedData, types) ==
  [k \in Kinds |->
     IF \E i \in 1..Len(types) : types[i] = k
     THEN PerformRegressionCall(processedData, k, OrderArgument(k)).value
     ELSE Null]

\* availableTypes filtered to the kinds with a result
ValidResults(types, results) ==
  LET HasResult(type) == results[type] # Null
  IN SelectSeq(types, HasResult)

\* validResults.reduce without an initial value: the first entry is the
\* first `best`, a later one replaces it only when its r2 is greater
RECURSIVE ReduceBest(_, _, _, _)
ReduceBest(validResults, results, i, best) ==
  IF i > Len(validResults) THEN best
  ELSE ReduceBest(validResults, results, i + 1,
         IF Gt(results[validResults[i]][1].r2, results[best][1].r2)
         THEN validResults[i] ELSE best)

BestModel(validResults, results) ==
  ReduceBest(validResults, results, 2, validResults[1])

\* the guard both calculate handlers start with
DataNotReady == ~isDataValidated \/ Len(data) < 2

CalculateAllModels ==
  /\ IF DataNotReady
     THEN /\ toast' = "Donnees non pretes"
          /\ UNCHANGED <<selectedModel, regressionResults, calculatedModels,
                         isCalculatingAll>>
     ELSE \E types \in {GetAvailableRegressionTypesCall(data)} :
          \E results \in {AllResults(data, types)} :
          \E validResults \in {ValidResults(types, results)} :
            /\ regressionResults' = results
            /\ calculatedModels' = types
            /\ IF Len(validResults) > 0
               THEN /\ selectedModel' = BestModel(validResults, results)
                    /\ toast' = "Tous les modeles calcules"
               ELSE UNCHANGED <<selectedModel, toast>>
            /\ isCalculatingAll' = FALSE
  /\ lastCall' = Call("calculateAllModels", 0, <<>>, <<>>, "", "")
  /\ UNCHANGED isDataValidated
  /\ UNCHANGED managerVars
  /\ UNCHANGED engineVars
  /\ UNCHANGED gaussVars
  /\ UNCHANGED loopVars

HandleModelSelect(model) ==
  /\ selectedModel' = model
  /\ lastCall' = Call("handleModelSelect", 0, <<>>, <<>>, "", model)
  /\ UNCHANGED <<regressionResults, calculatedModels, isDataValidated,
                 isCalculatingAll, toast>>
  /\ UNCHANGED managerVars
  /\ UNCHANGED engineVars
  /\ UNCHANGED gaussVars
  /\ UNCHANGED loopVars

\* the sample arrays the page is opened on
PageArrays ==
  { <<Point(Num(0), Num(0)), Point(Num(1), Num(1)),
      Point(Num(0), Num(1)), Point(Num(1), Num(0))>>,
    <<Point(Num(1), Num(2)), Point(Num(2), Num(8)), Point(Num(4), Num(32))>>,
    <<Point(Num(0), Num(0)), Point(Num(1), Num(1)), Point(Num(2), Num(4))>>,
    <<Point(Num(1), Num(1)), Point(Num(2), Num(3)), Point(Num(4), Num(2)),
      Point(Num(8), Num(5))>>,
    <<Point(Num(2), Num(4)), Point(Num(2), Num(0 - 1))>>,
    <<Point(Num(0), Num(1)), Point(Num(1), Num(1))>>,
    <<Point(Num(0 - 1), Num(0 - 2)), Point(Num(0), Num(0 - 1)),
      Point(Num(2), Num(0 - 3))>>,
    <<Point(Num(2), Num(3)), Point(Num(1), Num(1))>>,
    <<Point(Num(1), Num(1))>> }

PageInit ==
  /\ data \in PageArrays
  /\ EngineIdle
  /\ GaussIdle
  /\ LoopIdle
  /\ selectedModel = "linear" /\ regressionResults = NoResults
  /\ calculatedModels = <<>> /\ isDataValidated \in BOOLEAN
  /\ isCalculatingAll = FALSE /\ toast = "none"
  /\ ManagerIdle

PageNext ==
  \/ CalculateAllModels
  \/ \E model \in Kinds : HandleModelSelect(model)

SpecPage == PageInit /\ [][PageNext]_vars

-----------------------------------------------------------------------------
(* Properties of performRegression, checked under Spec *)

Called == callType # "none"

\* the value is a fit result of one of the six kinds
IsFitResult(r) == Len(r) = 1 /\ r[1].type \in Kinds

\* C1: performRegression returns a fit result or null for every sample
\* sequence, every kind (supported or not) and every degree, and never
\* throws to its caller.
C1_ReturnsResultOrNull ==
  Called => /\ threw = FALSE
            /\ result = Null \/ IsFitResult(result)

\* an unsupported kind on two or more samples: the exception of the default
\* branch is caught, logged, and null is returned
C1_Witness ==
  /\ callType = "spline" /\ Len(data) >= 2
  /\ console = "error" /\ result = Null /\ threw = FALSE

AllFinite(s) == \A i \in 1..Len(s) : IsFinite(s[i])

SameX(s) == \A i \in 1..Len(s) : s[i].x = s[1].x

\* C2: performRegression never returns a result whose coefficients contain
\* NaN or +/-Infinity; when all samples have the same x, the linear fit
\* returns no result.
C2_FiniteCoefficients ==
  /\ (Called /\ result # Null) => AllFinite(result[1].coefficients)
  /\ (callType = "linear" /\ SameX(data)) => result = Null

\* the samples the kind's fit keeps, as the indices of `data`
UsableIndices(type) ==
  { i \in 1..Len(data) :
      CASE type = "exponential" -> data[i].y[2] > 0 /\ data[i].y[1] > 0
        [] type = "logarithmic" -> data[i].x[2] > 0 /\ data[i].x[1] > 0
        [] type = "power" -> /\ data[i].x[2] > 0 /\ data[i].x[1] > 0
                             /\ data[i].y[2] > 0 /\ data[i].y[1] > 0
        [] type = "logistic" -> /\ data[i].y[2] > 0 /\ data[i].y[1] >= 0
                                /\ data[i].y[1] <= data[i].y[2]
        [] OTHER -> TRUE }

FilteringKinds == {"linear", "exponential", "logarithmic", "power", "logistic"}

\* C3: a fit returns no result whenever fewer than 2 samples are usable by
\* its kind (all samples for linear, y > 0 for exponential, x > 0 for
\* logarithmic, x > 0 and y > 0 for power, 0 <= y <= 1 for logistic).
C3_FewUsableNoResult ==
  (callType \in FilteringKinds /\ Cardinality(UsableIndices(callType)) < 2)
    => result = Null

\* three samples of which one has y > 0, fitted as exponential: the fit ran
\* and returned null
C3_Witness ==
  /\ callType = "exponential" /\ Len(data) = 3
  /\ Cardinality(UsableIndices("exponential")) = 1
  /\ result = Null /\ console = "log"

\* C4: a polynomial fit of degree d returns no result whenever there are
\* fewer than d + 1 samples.
C4_TooFewSamplesNoResult ==
  (callType = "polynomial" /\ Len(data) < callOrder + 1) => result = Null

\* the default degree 2 on exactly two samples with distinct x
C4_Witness ==
  /\ callType = "polynomial" /\ callOrder = DefaultOrder /\ Len(data) = 2
  /\ data[1].x # data[2].x
  /\ result = Null /\ console = "log"

\* C5: whenever the solver reports the normal equations of a polynomial fit
\* singular, polynomialRegression returns no result, and returns it
\* normally: nothing is computed from the missing coefficient vector (which
\* would raise an exception, caught and logged by performRegression).
C5_SingularNoResult ==
  ( /\ callType = "polynomial" /\ Len(data) >= 2
    /\ Len(data) >= callOrder + 1
    /\ PolynomialSolve(data, callOrder) = Null )
    => (result = Null /\ console = "log")

\* degree 2 on three samples with two distinct x values
C5_Witness ==
  /\ callType = "polynomial" /\ callOrder = 2 /\ Len(data) = 3
  /\ data[1].x = data[2].x /\ data[1].x # data[3].x
  /\ PolynomialSolve(data, 2) = Null
  /\ result = Null /\ console = "log"

\* a === b on numbers: NaN is equal to nothing, itself included
StrictEq(a, b) == ~IsNaN(a) /\ ~IsNaN(b) /\ a = b

\* C8: for every kind and every returned result, predict evaluated at the
\* x of the i-th point equals the y of the i-th point, for every i.
C8_PredictReproducesPoints ==
  (Called /\ result # Null) =>
    \A i \in 1..Len(result[1].points) :
      StrictEq(Predict(result[1].predict, result[1].points[i].x),
               result[1].points[i].y)

\* the indices of the usable samples, in input order
UsableSeq(type) ==
  SelectSeq([i \in 1..Len(data) |-> i], LAMBDA i : i \in UsableIndices(type))

\* C9: the points of a returned result correspond one to one, in order, to
\* the samples that pass the kind's filter: as many points as usable
\* samples, the i-th point carrying the x of the i-th usable sample.
C9_PointsFollowUsableSamples ==
  (Called /\ result # Null) =>
    /\ Len(result[1].points) = Len(UsableSeq(callType))
    /\ \A i \in 1..Len(result[1].points) :
         result[1].points[i].x = data[UsableSeq(callType)[i]].x

\* a power fit of three samples whose second is dropped by the filter
C9_Witness ==
  /\ callType = "power" /\ result # Null /\ Len(data) = 3
  /\ UsableSeq("power") = <<1, 3>>
  /\ Len(result[1].points) = 2
  /\ result[1].points[2].x = data[3].x /\ data[3].x # data[2].x

Queried == availableTypes # <<>>

Offered(type) == \E i \in 1..Len(availableTypes) : availableTypes[i] = type

\* C10 as stated: for a sample set with at least one y <= 0 the list
\* excludes 'exponential' and 'power'; for every sample set it includes
\* 'linear' and 'polynomial'.
C10_Original ==
  Queried =>
    /\ (\E i \in 1..Len(data) : data[i].y[1] <= 0)
         => (~Offered("exponential") /\ ~Offered("power"))
    /\ Offered("linear") /\ Offered("polynomial")

\* C10, amended: for a sample set in which no sample has y > 0 the list
\* excludes 'exponential' and 'power'; for every sample set it includes
\* 'linear' and 'polynomial'.
C10_NoPositiveYExcludes ==
  Queried =>
    /\ (\A i \in 1..Len(data) : data[i].y[1] <= 0)
         => (~Offered("exponential") /\ ~Offered("power"))
    /\ Offered("linear") /\ Offered("polynomial")

\* two or more samples, a zero and a negative y among them and none
\* positive: the list is there without 'exponential' and 'power'
C10_Witness ==
  /\ Queried /\ Len(data) >= 2
  /\ \A i \in 1..Len(data) : data[i].y[1] <= 0
  /\ \E i \in 1..Len(data) : data[i].y[1] < 0
  /\ \E i \in 1..Len(data) : data[i].y[1] = 0
  /\ ~Offered("exponential") /\ ~Offered("power")
  /\ Offered("linear") /\ Offered("polynomial")

-----------------------------------------------------------------------------
(* Properties of gaussianElimination, checked under SpecGauss *)

GaussDim == Len(gA)

HasZeroRow == \E r \in 1..GaussDim : \A j \in 1..GaussDim : IsZero(gA[r][j])

\* the pivots of the columns the loop has passed: row i is final once
\* column i is eliminated, so its diagonal entry is the pivot it was
\* divided by
PivotsPassed == { gAug[i][i] : i \in 1..(gI - 1) }

\* C6: gaussianElimination returns null whenever the pivot selected for a
\* column is below 1e-10 in magnitude, in particular for every matrix with
\* an all-zero row; a vector it returns was never obtained by dividing by
\* such a pivot.
C6_TinyPivotIsSingular ==
  /\ \A v \in PivotsPassed : ~BelowPivotTol(v)
  /\ gPc = "done" => \A i \in 1..GaussDim : ~BelowPivotTol(gAug[i][i])
  /\ HasZeroRow => gPc \in {"forward", "singular"}

\* a 3 x 3 matrix whose last row is all zero: two columns are eliminated,
\* the pivot of the third is zero and null is returned
C6_Witness ==
  /\ GaussDim = 3 /\ HasZeroRow /\ gPc = "singular" /\ gI = 3
  /\ BelowPivotTol(gAug[3][3])

\* row i of A times x
RowTimes(i, x) == Sum([j \in 1..GaussDim |-> Mul(gA[i][j], x[j])])

\* C7: a vector x returned by gaussianElimination satisfies A*x = b in
\* every row of the original system.
C7_SolutionSatisfiesSystem ==
  gPc = "done" => \A i \in 1..GaussDim : RowTimes(i, gX) = gb[i]

\* a 3 x 3 system whose first pivot needs a row swap, solved
C7_Witness ==
  /\ gPc = "done" /\ GaussDim = 3 /\ IsZero(gA[1][1])
  /\ \A i \in 1..3 : IsFinite(gX[i])

-----------------------------------------------------------------------------
(* Eligibility against the fits, checked under Spec *)

\* C11: eligibility is necessary for a fit: if performRegression returned a
\* result for a kind, getAvailableRegressionTypes on the same samples
\* contains that kind.  (The converse fails: C11_Witness.)
C11_ResultImpliesOffered ==
  (Called /\ Queried /\ result # Null) => Offered(callType)

\* the converse does not hold: 'exponential' is offered (one sample has
\* y > 0) and the exponential fit of the same samples returned no result
C11_Witness ==
  /\ callType = "exponential" /\ Queried /\ Len(data) >= 2
  /\ Offered("exponential") /\ result = Null /\ console = "log"


-----------------------------------------------------------------------------
(* The model calculateAllModels selects, checked under SpecPage *)

\* the kinds in the order getAvailableRegressionTypes lists them
KindOrder(k) ==
  CASE k = "linear" -> 1 [] k = "polynomial" -> 2 [] k = "exponential" -> 3
    [] k = "logarithmic" -> 4 [] k = "power" -> 5 [] k = "logistic" -> 6

Fitted(k) == regressionResults[k] # Null

R2Of(k) == regressionResults[k][1].r2

\* the selected kind has the greatest R2, and is the first such kind
BestSelected ==
  /\ Fitted(selectedModel)
  /\ \A k \in Kinds :
       Fitted(k) =>
         /\ Ge(R2Of(selectedModel), R2Of(k))
         /\ StrictEq(R2Of(k), R2Of(selectedModel)) =>
              KindOrder(selectedModel) <= KindOrder(k)

\* C12: after calculateAllModels completes with at least one successful
\* fit, the selected model's R2 is at least every other successful fit's
\* R2, and among equal R2 it is the first kind in the order linear,
\* polynomial, exponential, logarithmic, power, logistic
C12_BestModelSelected ==
  [][(CalculateAllModels /\ ~DataNotReady
        /\ regressionResults' # NoResults) => BestSelected']_vars


-----------------------------------------------------------------------------
(* Termination of the logistic descent, checked under SpecLogistic *)

LoopDone == lPc = "done"

\* C13: for every sample set the descent loop makes at most 1000 passes
\* and the fit returns; when the cap is reached without the tolerance
\* being met the fit still returns a result
C13_LoopCapped ==
  /\ <>LoopDone
  /\ [](lIter <= MaxIterations)
  /\ []((LoopDone /\ lIter = MaxIterations) => result # Null)

C13_Witness == LoopDone /\ lIter = MaxIterations /\ result # Null


-----------------------------------------------------------------------------
(* Exact recovery, checked under SpecRecovery *)

\* every sample lies on the polynomial with coefficients c
OnPolynomial(c) ==
  \A i \in 1..Len(data) : data[i].y = PolynomialAt(c, data[i].x)

\* the number of distinct x among the samples
DistinctX == Cardinality({data[i].x : i \in 1..Len(data)})

\* C14: on at least two samples with at least two distinct x that lie
\* exactly on y = a + b x with b # 0, the linear fit returns intercept a,
\* slope b and R2 = 1
C14_LinearRecovery ==
  \A c \in Polynomials :
    (/\ callType = "linear" /\ Len(c) = 2 /\ c[2] # Zero
     /\ Len(data) >= 2 /\ DistinctX >= 2 /\ OnPolynomial(c))
    => /\ result # Null
       /\ result[1].intercept = c[1]
       /\ result[1].slope = c[2]
       /\ result[1].r2 = One

\* the samples {(0,2),(1,5),(2,8),(3,11)} fitted: intercept 2, slope 3, R2 1
C14_Witness ==
  /\ callType = "linear"
  /\ data = <<Point(Num(0), Num(2)), Point(Num(1), Num(5)),
              Point(Num(2), Num(8)), Point(Num(3), Num(11))>>
  /\ result # Null
  /\ result[1].intercept = Num(2) /\ result[1].slope = Num(3)
  /\ result[1].r2 = One

\* the coefficient vector c followed by zeros up to degree d
PadTo(c, d) == [j \in 1..(d + 1) |-> IF j <= Len(c) THEN c[j] ELSE Zero]

\* C15: on samples with at least d + 1 distinct x that lie exactly on a
\* polynomial of degree d, the polynomial fit of degree d returns exactly
\* the coefficients [c0, ..., cd] of that polynomial
C15_PolynomialRecovery ==
  \A c \in Polynomials : \A d \in 1..MaxOrder :
    (/\ callType = "polynomial" /\ callOrder = d /\ Len(c) <= d + 1
     /\ DistinctX >= d + 1 /\ OnPolynomial(c))
    => /\ result # Null
       /\ result[1].coefficients = PadTo(c, d)

\* samples of y = 1 + 2x + 3x^2 fitted with degree 2: [1, 2, 3]
C15_Witness ==
  /\ callType = "polynomial" /\ callOrder = 2
  /\ data = <<Point(Num(0), Num(1)), Point(Num(1), Num(6)),
              Point(Num(2), Num(17)), Point(Num(3), Num(34))>>
  /\ result # Null
  /\ result[1].coefficients = <<Num(1), Num(2), Num(3)>>

\* every sample lies on y = a x^b
OnPower(a, b) == \A i \in 1..Len(data) : data[i].y = PowerAt(a, b, data[i].x)

\* x is a power of two: the one case in which the logarithm of the model
\* (in units of ln 2) is the exact logarithm
IsPowerOfTwo(x) == Gt(x, Zero) /\ Log(x)[2] = 1 /\ Exp(Log(x)) = x

\* the inner linear fit of powerRegression: the fit of the logarithms of
\* the usable samples
InnerPowerFit ==
  LinearRegression(
    [i \in 1..Len(SelectSeq(data, PowerUsable)) |->
       Point(Log(SelectSeq(data, PowerUsable)[i].x),
             Log(SelectSeq(data, PowerUsable)[i].y))])

\* C16: the power fit maps the inner linear fit back as a = e^intercept and
\* b = slope; on samples of y = a x^b at powers of two (where logarithms in
\* units of ln 2 are exact) with two distinct x it recovers a and b, as on
\* {(1,2),(2,8),(4,32)}: a = 2, b = 2
C16_PowerRecovery ==
  /\ (callType = "power" /\ result # Null) =>
       /\ InnerPowerFit # Null
       /\ result[1].coefficients[1] = Exp(InnerPowerFit[1].intercept)
       /\ result[1].coefficients[2] = InnerPowerFit[1].slope
  /\ \A a \in PowerScales : \A b \in PowerExponents :
       (/\ callType = "power" /\ OnPower(a, b) /\ DistinctX >= 2
        /\ \A i \in 1..Len(data) : IsPowerOfTwo(data[i].x))
       => /\ result # Null
          /\ result[1].coefficients = <<a, Num(b)>>

C16_Witness ==
  /\ callType = "power"
  /\ data = <<Point(Num(1), Num(2)), Point(Num(2), Num(8)),
              Point(Num(4), Num(32))>>
  /\ result # Null
  /\ result[1].coefficients = <<Num(2), Num(2)>>

-----------------------------------------------------------------------------
(* The metrics, checked under Spec *)

\* numParams of the kind's calculateMetrics call
NumParamsOf(type, order) == IF type = "polynomial" THEN order + 1 ELSE 2

\* n - p - 1 of the returned result's metrics
AdjustedDivisor ==
  Len(result[1].points) - NumParamsOf(callType, callOrder) - 1

\* C17: when n - p - 1 <= 0 the adjusted R2 (of a result whose R2 is a
\* finite number) comes from an explicit guard, not from a division by zero
\* or by a negative number: it is a finite number and, like every adjusted
\* R2, at most 1
C17_AdjustedR2Guarded ==
  (/\ Called /\ result # Null /\ AdjustedDivisor <= 0
   /\ IsFinite(result[1].r2)) =>
    /\ IsFinite(result[1].metrics.adjustedR2)
    /\ Le(result[1].metrics.adjustedR2, One)

-----------------------------------------------------------------------------
(* R2 on samples of one y, checked under SpecRecovery *)

\* all the y the fit of the called kind uses are equal (SS_tot = 0)
AllUsedYEqual ==
  \A i, j \in UsableIndices(callType) : data[i].y = data[j].y

\* C18: when all the y used by a fit are equal, so that SS_tot = 0, the
\* fit reports a defined, finite R2 (a convention) and no quotient by zero
C18_ConstantYFiniteR2 ==
  (Called /\ result # Null /\ AllUsedYEqual) => IsFinite(result[1].r2)

-----------------------------------------------------------------------------
(* The statistics of the transformed fits, checked under Spec *)

TransformedKinds == {"exponential", "logarithmic", "power"}

\* the samples that pass the filter of the called kind, in order
FilteredSamples == [i \in 1..Len(UsableSeq(callType)) |->
                      data[UsableSeq(callType)[i]]]

\* the back-transformed predictions: the returned curve at the x of the
\* filtered samples
CurvePredictions ==
  [i \in 1..Len(FilteredSamples) |->
     Predict(result[1].predict, FilteredSamples[i].x)]

\* C19: for the exponential, logarithmic and power fits the returned R2,
\* points and metrics are computed from the original y of exactly the
\* filtered samples and the back-transformed predictions (the metrics with
\* n = the number of filtered samples), never taken from the inner linear
\* fit of the transformed samples
C19_StatisticsOnOriginalScale ==
  (callType \in TransformedKinds /\ result # Null) =>
    /\ result[1].r2 = RSquared(FilteredSamples, CurvePredictions)
    /\ result[1].points = PointsOf(FilteredSamples, CurvePredictions)
    /\ result[1].metrics = CalculateMetrics(FilteredSamples, CurvePredictions, 2)

\* an exponential fit of three samples, one of them filtered out, whose R2
\* is a number
C19_Witness ==
  /\ callType = "exponential" /\ result # Null
  /\ Len(data) = 3 /\ Len(result[1].points) = 2
  /\ IsFinite(result[1].r2)

-----------------------------------------------------------------------------
(* Calls leave their arguments and each other alone, checked under SpecCalls *)

-----------------------------------------------------------------------------
(* Partial pivoting, checked under SpecGauss *)

\* the pivot step taken from the current state chose gMaxRow' among rows
\* gI..n: no row there has a larger |entry| in column gI, and every row
\* before it has a smaller one; that row now stands at position gI
PivotIsFirstLargest ==
  /\ gMaxRow' \in gI..Len(gA)
  /\ \A k \in gI..Len(gA) :
       Le(Abs(gAug[k][gI]), Abs(gAug[gMaxRow'][gI]))
  /\ \A k \in gI..(gMaxRow' - 1) :
       Lt(Abs(gAug[k][gI]), Abs(gAug[gMaxRow'][gI]))
  /\ gAug'[gI] = gAug[gMaxRow']

\* after the elimination of step gI the entries below the diagonal in
\* columns 1..gI are zero
ZeroBelowDiagonal ==
  \A j \in 1..gI : \A k \in (j + 1)..Len(gA) : gAug'[k][j] = Zero

\* C22: at every pivot step i the row swapped into position i is a row
\* among rows i..n-1 with the largest absolute value in column i, the
\* lowest-indexed one on ties, and after the elimination of step i every
\* entry below the diagonal in columns 0..i is zero
C22_PartialPivoting ==
  [][gPc = "forward" =>
       /\ PivotIsFirstLargest
       /\ gPc' # "singular" => ZeroBelowDiagonal]_vars

\* a system of three equations after its second pivot step, in which the
\* third row was swapped into the second position
C22_Witness ==
  /\ Len(gA) = 3 /\ gI = 3 /\ gMaxRow = 3 /\ gPc = "forward"
  /\ gAug[2][1] = Zero /\ gAug[3][1] = Zero /\ gAug[3][2] = Zero
  /\ gAug[2][2] # Zero

-----------------------------------------------------------------------------
(* The exit of the logistic descent, checked under SpecLogistic *)

\* the samples the descent runs on
DescentData == SelectSeq(data, LogisticUsable)

\* the two steps learningRate * grad / n of a pass from (lBeta0, lBeta1)
DescentSteps ==
  Gradient(DescentData, 1, lBeta0, lBeta1, BetaUnit(DescentData),
           CommonDenX(DescentData, 1, 1), CommonDenY(DescentData, 1, 1),
           0, 0)

BothStepsSmall ==
  /\ BelowTolerance(DescentSteps[1], BetaUnit(DescentData))
  /\ BelowTolerance(DescentSteps[2], BetaUnit(DescentData))

\* C23: the descent starts from beta0 = beta1 = 0; a pass computes both
\* steps from the same (beta0, beta1); the loop is left exactly at the
\* first pass whose steps are both below 1e-6 in magnitude, or after the
\* 1000th pass, and never while only one of the two steps is below the
\* tolerance
C23_DescentExit ==
  [][/\ (lPc = "idle" /\ lPc' = "loop") =>
          lBeta0' = 0 /\ lBeta1' = 0 /\ lIter' = 0
     /\ (lPc = "loop" /\ lIter < MaxIterations) =>
          IF BothStepsSmall
          THEN lPc' = "exit" /\ UNCHANGED <<lBeta0, lBeta1, lIter>>
          ELSE /\ lPc' = "loop" /\ lIter' = lIter + 1
               /\ lBeta0' = lBeta0 - DescentSteps[1]
               /\ lBeta1' = lBeta1 - DescentSteps[2]
     /\ (lPc = "loop" /\ lIter >= MaxIterations) =>
          lPc' = "exit" /\ UNCHANGED <<lBeta0, lBeta1, lIter>>]_vars

\* a descent left by its tolerance test in mid-loop
C23_Witness ==
  /\ lPc = "done" /\ lIter > 0 /\ lIter < MaxIterations /\ result # Null

-----------------------------------------------------------------------------
(* The datasets of the multi-dataset manager *)

\* A column name is the tuple of its parts: <<base, quote, separator>> for
\* a name the two patterns of detectForexPair match (three capitals, "/" or
\* nothing, three capitals), <<text>> for any other name, <<>> for "".
IsForexPair(columnName) == Len(columnName) = 3

InvertForexPair(columnName) ==
  IF ~IsForexPair(columnName) THEN columnName
  ELSE <<columnName[2], columnName[1], columnName[3]>>

\* A cell is a number, Null, or a text that is no number
Text == <<"n/a">>
Undefined == <<"undefined">>

IsNumberCell(val) == Len(val) = 2

\* row[columnName]
Cell(row, columnName) ==
  IF columnName \in DOMAIN row THEN row[columnName] ELSE Undefined

ParseFloat(val) == IF IsNumberCell(val) THEN val ELSE NaN

\* the value written under the new name
InvertedCell(row, columnName) ==
  LET value == ParseFloat(Cell(row, columnName))
  IN IF ~IsNaN(value) /\ ~StrictEq(value, Zero) THEN Div(One, value)
     ELSE Null

SetColumn(row, columnName, val) ==
  [h \in DOMAIN row \cup {columnName} |->
     IF h = columnName THEN val ELSE row[h]]

DeleteColumn(row, columnName) ==
  [h \in DOMAIN row \ {columnName} |-> row[h]]

RenameIn(names, columnName, newColumnName) ==
  [i \in 1..Len(names) |->
     IF names[i] = columnName THEN newColumnName ELSE names[i]]

\* the name the inverted column gets; <<>> is the pair name left out
NewColumnName(columnName, forexPairName) ==
  IF forexPairName # <<>> THEN InvertForexPair(forexPairName)
  ELSE InvertForexPair(columnName)

InvertForexDataInDataset(dataset, columnName, forexPairName) ==
  LET newColumnName == NewColumnName(columnName, forexPairName)
  IN [dataset EXCEPT
        !.data = [i \in 1..Len(dataset.data) |->
                    DeleteColumn(
                      SetColumn(dataset.data[i], newColumnName,
                                InvertedCell(dataset.data[i], columnName)),
                      columnName)],
        !.headers = RenameIn(dataset.headers, columnName, newColumnName),
        !.numericColumns =
           RenameIn(dataset.numericColumns, columnName, newColumnName)]

\* invertForexData of the forex utilities: the old column is deleted only
\* when no new name was passed
InvertForexData(rows, columnName, newColumnName) ==
  LET finalNewColumnName ==
        IF newColumnName # <<>> THEN newColumnName
        ELSE InvertForexPair(columnName)
      NewRow(row) ==
        SetColumn(row, finalNewColumnName, InvertedCell(row, columnName))
  IN [data |-> [i \in 1..Len(rows) |->
                  IF newColumnName = <<>>
                  THEN DeleteColumn(NewRow(rows[i]), columnName)
                  ELSE NewRow(rows[i])],
      newColumnName |-> finalNewColumnName]

\* the values of a column that parse to a number, each with its row index
ExtractNumericColumn(rows, columnName) ==
  LET items == [i \in 1..Len(rows) |->
                  [value |-> ParseFloat(Cell(rows[i], columnName)),
                   index |-> i]]
      Parsed(item) == ~IsNaN(item.value)
  IN SelectSeq(items, Parsed)

\* datasets.find(d => d.id === id): Null or Some(dataset)
RECURSIVE FindFrom(_, _, _)
FindFrom(sets, id, i) ==
  IF i > Len(sets) THEN Null
  ELSE IF sets[i].id = id THEN Some(sets[i])
  ELSE FindFrom(sets, id, i + 1)

FindDataset(sets, id) == FindFrom(sets, id, 1)

\* a selection: datasetId 0 and column <<>> stand for the empty strings
Variable(datasetId, column) == [datasetId |-> datasetId, column |-> column]

EmptyVariable == Variable(0, <<>>)

IsEmptyVariable(v) == v.datasetId = 0 \/ v.column = <<>>

MinInt(a, b) == IF a < b THEN a ELSE b

\* combineDatasets: Null or Some(dataPoints); both of its branches pair the
\* two extracted arrays by position
CombineDatasets(sets, xVariable, yVariable) ==
  IF IsEmptyVariable(xVariable) \/ IsEmptyVariable(yVariable) THEN Null
  ELSE
    LET xDataset == FindDataset(sets, xVariable.datasetId)
        yDataset == FindDataset(sets, yVariable.datasetId)
    IN IF xDataset = Null \/ yDataset = Null THEN Null
       ELSE
         LET xData == ExtractNumericColumn(xDataset[1].data,
                                           xVariable.column)
             yData == ExtractNumericColumn(yDataset[1].data,
                                           yVariable.column)
         IN IF Len(xData) = 0 \/ Len(yData) = 0 THEN Null
            ELSE Some([i \in 1..MinInt(Len(xData), Len(yData)) |->
                         Point(xData[i].value, yData[i].value)])

\* processedData: the combined points, or the legacy path, which has no
\* raw data on this page
ProcessedData(sets, selected) ==
  IF selected.x = Null \/ selected.y = Null THEN <<>>
  ELSE LET combinedData == CombineDatasets(sets, selected.x[1], selected.y[1])
       IN IF combinedData = Null THEN <<>> ELSE combinedData[1]

\* the files that get uploaded, as parseFile reads them
EURUSD == <<"EUR", "USD", "/">>
USDEUR == <<"USD", "EUR", "">>
Price == <<"price">>

RatesRows ==
  << (EURUSD :> Num(2)) @@ (Price :> Num(1)),
     (EURUSD :> Num(4)) @@ (Price :> Num(2)),
     (EURUSD :> Text) @@ (Price :> Num(3)),
     (EURUSD :> Zero) @@ (Price :> Num(4)),
     (EURUSD :> Num(1)) @@ (Price :> Num(5)) >>

SpotRows == << (USDEUR :> Num(2)), (USDEUR :> Num(8)) >>

Files == {"rates", "spot", "empty"}

ParseFile(file) ==
  CASE file = "rates" -> [data |-> RatesRows, headers |-> <<EURUSD, Price>>]
    [] file = "spot" -> [data |-> SpotRows, headers |-> <<USDEUR>>]
    [] OTHER -> [data |-> <<>>, headers |-> <<>>]

\* the pair names typed into the inversion form
PairNames == { <<"USD", "EUR", "/">> }

\* the uploads the checked runs start
MaxUploads == 2

Includes(names, name) == \E i \in 1..Len(names) : names[i] = name

\* Number(val) is a number for the number cells only; null and "" are
\* excluded by the filter itself
CountsAsNumeric(val) == val # Null /\ val # Undefined /\ IsNumberCell(val)

\* the headers with at least 80% numeric cells
NumericColumnsOf(parsed) ==
  LET NumericCount(col) ==
        Cardinality({i \in 1..Len(parsed.data) :
                       CountsAsNumeric(Cell(parsed.data[i], col))})
      Numeric(col) == 5 * NumericCount(col) >= 4 * Len(parsed.data)
  IN SelectSeq(parsed.headers, Numeric)

\* the reset without the results and the calculated kinds
ResetValidationOnly ==
  /\ isDataValidated' = FALSE
  /\ UNCHANGED <<regressionResults, calculatedModels>>

\* what handleVariableSelect of the page sets besides the selection
ResetCalculations ==
  /\ isDataValidated' = FALSE
  /\ regressionResults' = NoResults
  /\ calculatedModels' = <<>>

\* the memo processedData, recomputed with the render that follows
Rendered == data' = ProcessedData(datasets', selectedVariables')

ManagerFrame ==
  /\ UNCHANGED <<callType, callOrder, result, threw, console,
                 availableTypes>>
  /\ UNCHANGED gaussVars
  /\ UNCHANGED loopVars

\* handleFileSelect up to its await: the call keeps the datasets of the
\* render it was made in
HandleFileSelect(file) ==
  /\ (now - 1) + Len(uploads) < MaxUploads
  /\ uploads' = Append(uploads, [file |-> file, datasets |-> datasets])
  /\ lastCall' = Call("handleFileSelect", 0, <<>>, <<>>, "", "")
  /\ UNCHANGED <<datasets, selectedVariables, now, selectedModel,
                 regressionResults, calculatedModels, isDataValidated,
                 isCalculatingAll, toast, data>>
  /\ ManagerFrame

RemoveAt(s, i) == [j \in 1..(Len(s) - 1) |-> IF j < i THEN s[j] ELSE s[j + 1]]

\* handleFileSelect after parseFile has resolved
FileParsed(i) ==
  /\ i \in 1..Len(uploads)
  /\ uploads' = RemoveAt(uploads, i)
  /\ lastCall' = Call("fileParsed", now, <<>>, <<>>, "", "")
  /\ \E parsed \in {ParseFile(uploads[i].file)} :
       IF Len(parsed.data) = 0
       THEN /\ toast' = "No data found"
            /\ UNCHANGED <<datasets, now>>
       ELSE /\ datasets' =
                 Append(uploads[i].datasets,
                        [id |-> now, data |-> parsed.data,
                         headers |-> parsed.headers,
                         numericColumns |-> NumericColumnsOf(parsed)])
            /\ now' = now + 1
            /\ toast' = "Dataset loaded successfully"
  /\ UNCHANGED <<selectedVariables, selectedModel, regressionResults,
                 calculatedModels, isDataValidated, isCalculatingAll>>
  /\ Rendered
  /\ ManagerFrame

\* handleVariableSelect of the manager, which calls the one of the page
HandleVariableSelect(datasetId, column, axis) ==
  /\ FindDataset(datasets, datasetId) # Null
  /\ selectedVariables' =
       [selectedVariables EXCEPT ![axis] = Some(Variable(datasetId, column))]
  /\ ResetCalculations
  /\ lastCall' = Call("handleVariableSelect", datasetId, column, <<>>, axis, "")
  /\ UNCHANGED <<datasets, uploads, now, selectedModel, isCalculatingAll,
                 toast>>
  /\ Rendered
  /\ ManagerFrame

References(selected, axis, datasetId) ==
  selected[axis] # Null /\ selected[axis][1].datasetId = datasetId

\* the selection after onVariableSelect was called for the axes in `axes`
Reselect(selected, axes, variable) ==
  [a \in {"x", "y"} |-> IF a \in axes THEN Some(variable) ELSE selected[a]]

RemoveDataset(datasetId) ==
  /\ FindDataset(datasets, datasetId) # Null
  /\ LET Kept(d) == d.id # datasetId
     IN datasets' = SelectSeq(datasets, Kept)
  /\ \E axes \in {{a \in {"x", "y"} :
                     References(selectedVariables, a, datasetId)}} :
       /\ selectedVariables' =
            Reselect(selectedVariables, axes, EmptyVariable)
       /\ IF axes # {} THEN ResetCalculations
          ELSE UNCHANGED <<isDataValidated, regressionResults,
                           calculatedModels>>
  /\ lastCall' = Call("removeDataset", datasetId, <<>>, <<>>, "", "")
  /\ UNCHANGED <<uploads, now, selectedModel, isCalculatingAll, toast>>
  /\ Rendered
  /\ ManagerFrame

HandleForexInversion(datasetId, columnName, forexPairName) ==
  /\ FindDataset(datasets, datasetId) # Null
  /\ \E newDataset \in {InvertForexDataInDataset(
                          FindDataset(datasets, datasetId)[1],
                          columnName, forexPairName)} :
       datasets' = [i \in 1..Len(datasets) |->
                      IF datasets[i].id = datasetId THEN newDataset
                      ELSE datasets[i]]
  /\ \E axes \in {{a \in {"x", "y"} :
                     /\ References(selectedVariables, a, datasetId)
                     /\ selectedVariables[a][1].column = columnName}} :
       /\ selectedVariables' =
            Reselect(selectedVariables, axes,
                     Variable(datasetId,
                              NewColumnName(columnName, forexPairName)))
       /\ IF axes # {} THEN ResetCalculations
          ELSE UNCHANGED <<isDataValidated, regressionResults,
                           calculatedModels>>
  /\ toast' = "Paire inversee"
  /\ lastCall' = Call("handleForexInversion", datasetId, columnName,
                      forexPairName, "", "")
  /\ UNCHANGED <<uploads, now, selectedModel, isCalculatingAll>>
  /\ Rendered
  /\ ManagerFrame

\* validateVariableSelection(...).valid
ValidateVariableSelection(sets, xVariable, yVariable) ==
  IF IsEmptyVariable(xVariable) \/ IsEmptyVariable(yVariable) THEN FALSE
  ELSE
    LET xDataset == FindDataset(sets, xVariable.datasetId)
        yDataset == FindDataset(sets, yVariable.datasetId)
    IN IF xDataset = Null \/ yDataset = Null THEN FALSE
       ELSE /\ Includes(xDataset[1].numericColumns, xVariable.column)
            /\ Includes(yDataset[1].numericColumns, yVariable.column)
            /\ ~(xVariable.datasetId = yVariable.datasetId
                 /\ xVariable.column = yVariable.column)

\* the handler without its check for identical variables
ValidationToastSameAllowed(sets, selected) ==
  IF selected.x = Null \/ selected.y = Null THEN "Variables manquantes"
  ELSE IF IsEmptyVariable(selected.x[1]) \/ IsEmptyVariable(selected.y[1])
  THEN "Selection incomplete"
  ELSE
    LET x == selected.x[1]
        y == selected.y[1]
        xDataset == FindDataset(sets, x.datasetId)
        yDataset == FindDataset(sets, y.datasetId)
    IN IF xDataset = Null \/ yDataset = Null THEN "Datasets introuvables"
       ELSE IF ~Includes(xDataset[1].numericColumns, x.column)
       THEN "Colonne X invalide"
       ELSE IF ~Includes(yDataset[1].numericColumns, y.column)
       THEN "Colonne Y invalide"
       ELSE "Donnees validees"

\* the toast handleValidateAndProceed ends with
ValidationToast(sets, selected) ==
  IF selected.x = Null \/ selected.y = Null THEN "Variables manquantes"
  ELSE IF IsEmptyVariable(selected.x[1]) \/ IsEmptyVariable(selected.y[1])
  THEN "Selection incomplete"
  ELSE
    LET x == selected.x[1]
        y == selected.y[1]
        xDataset == FindDataset(sets, x.datasetId)
        yDataset == FindDataset(sets, y.datasetId)
    IN IF xDataset = Null \/ yDataset = Null THEN "Datasets introuvables"
       ELSE IF ~Includes(xDataset[1].numericColumns, x.column)
       THEN "Colonne X invalide"
       ELSE IF ~Includes(yDataset[1].numericColumns, y.column)
       THEN "Colonne Y invalide"
       ELSE IF x.datasetId = y.datasetId /\ x.column = y.column
       THEN "Variables identiques"
       ELSE "Donnees validees"

HandleValidateAndProceed ==
  /\ toast' = ValidationToast(datasets, selectedVariables)
  /\ isDataValidated' =
       IF toast' = "Donnees validees" THEN TRUE ELSE isDataValidated
  /\ lastCall' = Call("handleValidateAndProceed", 0, <<>>, <<>>, "", "")
  /\ UNCHANGED <<datasets, selectedVariables, uploads, now, selectedModel,
                 regressionResults, calculatedModels, isCalculatingAll,
                 data>>
  /\ ManagerFrame

\* the button "Modifier" and the effect on isDataValidated that follows
Modify ==
  /\ isDataValidated
  /\ ResetCalculations
  /\ lastCall' = Call("modify", 0, <<>>, <<>>, "", "")
  /\ UNCHANGED <<datasets, selectedVariables, uploads, now, selectedModel,
                 isCalculatingAll, toast, data>>
  /\ ManagerFrame

\* new Set(prev).add(modelType)
SetAdd(models, modelType) ==
  IF Includes(models, modelType) THEN models ELSE Append(models, modelType)

\* the results replaced by the one fit
OnlyResult(results, modelType, fit) == [NoResults EXCEPT ![modelType] = fit]

\* ({...prev, [modelType]: result})
WithResult(results, modelType, fit) == [results EXCEPT ![modelType] = fit]

CalculateModel(modelType) ==
  /\ IF DataNotReady
     THEN /\ toast' = "Donnees non pretes"
          /\ UNCHANGED <<regressionResults, calculatedModels>>
     ELSE \E fit \in {PerformRegressionCall(
                        data, modelType, OrderArgument(modelType)).value} :
            /\ regressionResults' =
                 WithResult(regressionResults, modelType, fit)
            /\ calculatedModels' = SetAdd(calculatedModels, modelType)
            /\ toast' = IF fit # Null THEN "Modele calcule"
                        ELSE "Erreur de calcul"
  /\ lastCall' = Call("calculateModel", 0, <<>>, <<>>, "", modelType)
  /\ UNCHANGED <<selectedModel, isDataValidated, isCalculatingAll>>
  /\ UNCHANGED managerVars
  /\ UNCHANGED engineVars
  /\ UNCHANGED gaussVars
  /\ UNCHANGED loopVars

\* the kind whose button is pressed on the manager's page
ManagerKinds == {"linear"}

ManagerInit ==
  /\ data = <<>>
  /\ EngineIdle
  /\ GaussIdle
  /\ LoopIdle
  /\ PageIdle

\* the inversion form is used on a dataset once, while it is as uploaded
AsUploaded(dataset) == dataset.data \in {RatesRows, SpotRows}

ManagerNext ==
  \/ \E file \in Files : HandleFileSelect(file)
  \/ \E i \in 1..Len(uploads) : FileParsed(i)
  \/ \E i \in 1..Len(datasets) :
       \/ RemoveDataset(datasets[i].id)
       \/ \E j \in 1..Len(datasets[i].numericColumns) :
            \/ \E axis \in {"x", "y"} :
                 HandleVariableSelect(datasets[i].id,
                                      datasets[i].numericColumns[j], axis)
            \/ \E pair \in PairNames :
                 /\ AsUploaded(datasets[i])
                 /\ HandleForexInversion(datasets[i].id,
                                      datasets[i].numericColumns[j], pair)
            \/ /\ IsForexPair(datasets[i].numericColumns[j])
               /\ AsUploaded(datasets[i])
               /\ HandleForexInversion(datasets[i].id,
                                       datasets[i].numericColumns[j], <<>>)
  \/ HandleValidateAndProceed
  \/ Modify
  \/ \E modelType \in ManagerKinds : CalculateModel(modelType)

SpecManager == ManagerInit /\ [][ManagerNext]_vars

-----------------------------------------------------------------------------
(* The two calculate handlers of the page *)

\* the kinds whose button is pressed
CalculateKinds == {"linear", "polynomial", "exponential", "logistic"}

\* the sample arrays the handlers run on
CalculateArrays ==
  { <<Point(Num(1), Num(2)), Point(Num(2), Num(8)), Point(Num(4), Num(32))>>,
    <<Point(Num(2), Num(4)), Point(Num(2), Num(0 - 1))>>,
    <<Point(Num(1), Num(1))>> }

CalculateInit ==
  /\ data \in CalculateArrays
  /\ EngineIdle
  /\ GaussIdle
  /\ LoopIdle
  /\ selectedModel = "linear" /\ regressionResults = NoResults
  /\ calculatedModels = <<>> /\ isDataValidated \in BOOLEAN
  /\ isCalculatingAll = FALSE /\ toast = "none"
  /\ ManagerIdle

CalculateNext ==
  \/ \E modelType \in CalculateKinds : CalculateModel(modelType)
  \/ CalculateAllModels

SpecCalculate == CalculateInit /\ [][CalculateNext]_vars

-----------------------------------------------------------------------------
(* The forex inversion, checked on the inversions of SpecManager *)

\* the rows hold the inverted value of column c under the new name and, the
\* new name apart, no column c
InvertedRows(rowsBefore, rowsAfter, c, newName) ==
  /\ Len(rowsAfter) = Len(rowsBefore)
  /\ \A i \in 1..Len(rowsBefore) :
       /\ Cell(rowsAfter[i], newName) = InvertedCell(rowsBefore[i], c)
       /\ newName # c => c \notin DOMAIN rowsAfter[i]

\* C21: the inversion of column c replaces it by the column named with the
\* inverted pair: every row holds under the new name 1/value when the old
\* value is a non-zero number and null otherwise, the old column is gone,
\* headers and numericColumns hold the new name in place of c; for every
\* column name and pair name, also when the new name equals c
C21_InversionReplacesColumn ==
  [][lastCall'.op = "handleForexInversion" =>
       LET id == lastCall'.id
           c == lastCall'.column
           newName == NewColumnName(c, lastCall'.pair)
           before == FindDataset(datasets, id)[1]
           after == FindDataset(datasets', id)[1]
       IN /\ InvertedRows(before.data, after.data, c, newName)
          /\ after.headers = RenameIn(before.headers, c, newName)
          /\ after.numericColumns = RenameIn(before.numericColumns, c, newName)
          /\ InvertedRows(before.data, InvertForexData(before.data, c, <<>>).data,
                          c, InvertForexPair(c))]_vars

-----------------------------------------------------------------------------
(* The selection of the variables, checked under SpecManager *)

CalculationsReset ==
  /\ isDataValidated' = FALSE
  /\ regressionResults' = NoResults
  /\ calculatedModels' = <<>>

\* the axis `a` was given `variable` if `hit`, and was left alone if not
AxisSetIf(hit, a, variable) ==
  IF hit THEN selectedVariables'[a] = Some(variable) /\ CalculationsReset
  ELSE selectedVariables'[a] = selectedVariables[a]

\* C24: every change of a selected variable (handleVariableSelect for
\* either axis, the clearing by removeDataset, the renaming by the forex
\* inversion) sets isDataValidated to false, all six results to null and
\* calculatedModels to the empty set, and leaves the selection of the
\* other axis as it was
C24_SelectionChangeResets ==
  [][/\ selectedVariables' # selectedVariables => CalculationsReset
     /\ lastCall'.op = "handleVariableSelect" =>
          \A a \in {"x", "y"} :
            AxisSetIf(a = lastCall'.axis, a,
                      Variable(lastCall'.id, lastCall'.column))
     /\ lastCall'.op = "removeDataset" =>
          \A a \in {"x", "y"} :
            AxisSetIf(References(selectedVariables, a, lastCall'.id), a,
                      EmptyVariable)
     /\ lastCall'.op = "handleForexInversion" =>
          \A a \in {"x", "y"} :
            AxisSetIf(/\ References(selectedVariables, a, lastCall'.id)
                      /\ selectedVariables[a][1].column = lastCall'.column,
                      a,
                      Variable(lastCall'.id,
                               NewColumnName(lastCall'.column,
                                             lastCall'.pair)))]_vars

\* an inversion has renamed the selected x column, y is still selected
C24_Witness ==
  /\ lastCall.op = "handleForexInversion"
  /\ selectedVariables.x = Some(Variable(lastCall.id, <<"USD", "EUR", "/">>))
  /\ lastCall.column = EURUSD
  /\ selectedVariables.y = Some(Variable(lastCall.id, Price))
  /\ ~isDataValidated /\ regressionResults = NoResults
  /\ calculatedModels = <<>>

-----------------------------------------------------------------------------
(* The results and the data they were computed from, under SpecManager *)

\* C25: in every state each result that is not null is what
\* performRegression returns for its kind on the current processedData, and
\* while isDataValidated is false all six results are null and
\* calculatedModels is empty
C25_ResultsOfCurrentData ==
  /\ \A k \in Kinds :
       regressionResults[k] # Null =>
         regressionResults[k] =
           PerformRegressionCall(data, k, OrderArgument(k)).value
  /\ ~isDataValidated =>
       regressionResults = NoResults /\ calculatedModels = <<>>

-----------------------------------------------------------------------------
(* Uploads in flight, checked under SpecManager *)

\* C26: uploads lose no update: when an upload completes, the list holds
\* the newly parsed dataset together with every change made to the list
\* while the file was parsed; no other dataset is dropped, resurrected or
\* reverted to an older version
C26_UploadKeepsList ==
  [][(lastCall'.op = "fileParsed" /\ now' # now) =>
       /\ Len(datasets') = Len(datasets) + 1
       /\ SubSeq(datasets', 1, Len(datasets)) = datasets
       /\ datasets'[Len(datasets')].id = lastCall'.id]_vars

-----------------------------------------------------------------------------
(* The points of one dataset, checked under SpecManager *)

\* the points of the rows that hold a number in both columns, row by row
RowPoints(rows, xColumn, yColumn) ==
  LET Both(i) == /\ ~IsNaN(ParseFloat(Cell(rows[i], xColumn)))
                 /\ ~IsNaN(ParseFloat(Cell(rows[i], yColumn)))
      kept == SelectSeq([i \in 1..Len(rows) |-> i], Both)
  IN [k \in 1..Len(kept) |->
        Point(ParseFloat(Cell(rows[kept[k]], xColumn)),
              ParseFloat(Cell(rows[kept[k]], yColumn)))]

\* C27: with x and y selected in the same dataset every point of
\* processedData has its x and its y from the same row, also when some rows
\* hold a non-numeric value in only one of the two columns; the rows that
\* lack either value give no point
C27_PointsFromOneRow ==
  \A id \in 1..now :
    (/\ References(selectedVariables, "x", id)
     /\ References(selectedVariables, "y", id)
     /\ FindDataset(datasets, id) # Null) =>
      data = RowPoints(FindDataset(datasets, id)[1].data,
                       selectedVariables.x[1].column,
                       selectedVariables.y[1].column)

-----------------------------------------------------------------------------
(* The regression chart of the page, checked under SpecPage *)

\* [...data].sort((a, b) => a.x - b.x): the sort is stable, a sample goes
\* behind the samples whose x is not greater
RECURSIVE InsertByX(_, _, _)
InsertByX(sorted, point, i) ==
  IF i > Len(sorted) THEN Append(sorted, point)
  ELSE IF Gt(sorted[i].x, point.x)
  THEN SubSeq(sorted, 1, i - 1) \o <<point>> \o SubSeq(sorted, i, Len(sorted))
  ELSE InsertByX(sorted, point, i + 1)

RECURSIVE SortByX(_, _, _)
SortByX(points, i, sorted) ==
  IF i > Len(points) THEN sorted
  ELSE SortByX(points, i + 1, InsertByX(sorted, points[i], 1))

\* regression?.points[index]?.y || null
PredictedAt(regression, i) ==
  IF regression = Null THEN Null
  ELSE IF i > Len(regression[1].points) THEN Null
  ELSE IF IsNaN(regression[1].points[i].y) \/ IsZero(regression[1].points[i].y)
  THEN Null
  ELSE regression[1].points[i].y

ChartData(points, regression) ==
  IF Len(points) = 0 THEN <<>>
  ELSE LET sortedData == SortByX(points, 1, <<>>)
       IN [i \in 1..Len(sortedData) |->
             [x |-> sortedData[i].x, y |-> sortedData[i].y, index |-> i - 1,
              predicted |-> PredictedAt(regression, i)]]

\* C28: the predicted value of every chart entry is the prediction of the
\* shown fit for that entry's x, for every sample sequence (in any order of
\* x, with or without samples removed by the filter of the fit)
C28_ChartShowsPredictions ==
  regressionResults[selectedModel] # Null =>
    LET regression == regressionResults[selectedModel]
        chartData == ChartData(data, regression)
    IN \A i \in 1..Len(chartData) :
         chartData[i].predicted =
           Predict(regression[1].predict, chartData[i].x)

-----------------------------------------------------------------------------
(* The validation button and validateVariableSelection, under SpecManager *)

\* C29: for all datasets and all x and y selections that are not null,
\* handleValidateAndProceed sets isDataValidated to true exactly when
\* validateVariableSelection returns valid = true on the same datasets and
\* selections
C29_ButtonAgreesWithValidation ==
  [][(/\ lastCall'.op = "handleValidateAndProceed"
      /\ selectedVariables.x # Null /\ selectedVariables.y # Null) =>
       IF ValidateVariableSelection(datasets, selectedVariables.x[1],
                                    selectedVariables.y[1])
       THEN isDataValidated' = TRUE /\ toast' = "Donnees validees"
       ELSE isDataValidated' = isDataValidated
            /\ toast' # "Donnees validees"]_vars

\* a selection over two datasets has been validated
C29_Witness ==
  /\ lastCall.op = "handleValidateAndProceed"
  /\ isDataValidated /\ toast = "Donnees validees"
  /\ selectedVariables.x # Null /\ selectedVariables.y # Null
  /\ selectedVariables.x[1].datasetId # selectedVariables.y[1].datasetId

-----------------------------------------------------------------------------
(* What the calculate handlers write, checked under SpecCalculate *)

SetOf(models) == {models[i] : i \in 1..Len(models)}

\* C30: calculateModel(m) sets only the result of kind m and adds m to
\* calculatedModels, also when the fit returned null; the other results and
\* the selected model stay.  calculateAllModels replaces every result (null
\* for the kinds that are not available) and sets calculatedModels to
\* exactly the available kinds.
C30_CalculateWritesItsKind ==
  [][~DataNotReady =>
       /\ lastCall'.op = "calculateModel" =>
            /\ regressionResults'[lastCall'.kind] =
                 PerformRegressionCall(data, lastCall'.kind,
                                       OrderArgument(lastCall'.kind)).value
            /\ \A k \in Kinds \ {lastCall'.kind} :
                 regressionResults'[k] = regressionResults[k]
            /\ SetOf(calculatedModels') =
                 SetOf(calculatedModels) \cup {lastCall'.kind}
            /\ selectedModel' = selectedModel
       /\ lastCall'.op = "calculateAllModels" =>
            /\ \A k \in Kinds :
                 regressionResults'[k] =
                   IF Includes(GetAvailableRegressionTypesCall(data), k)
                   THEN PerformRegressionCall(data, k, OrderArgument(k)).value
                   ELSE Null
            /\ SetOf(calculatedModels') =
                 SetOf(GetAvailableRegressionTypesCall(data))]_vars

\* a kind was calculated whose fit returned null, after another kind
C30_Witness ==
  /\ lastCall.op = "calculateModel"
  /\ regressionResults[lastCall.kind] = Null
  /\ Includes(calculatedModels, lastCall.kind)
  /\ \E k \in Kinds : regressionResults[k] # Null

=============================================================================
